---- MODULE Spec2Model ----
(***************************************************************************)
(* Model of the CAN diagnostics web server: the telemetry Store (latest    *)
(* value per signal plus a bounded FIFO of raw frames), the ingestion loop *)
(* RunCANReader, the CSV schema loader LoadCANMap and the Snapshot readers *)
(* of the web handler.                                                     *)
(*                                                                         *)
(* Text is modelled as a sequence of character codes, so that formatting,  *)
(* concatenation, trimming, case folding and lexicographic comparison are  *)
(* computed as the code computes them.                                     *)
(***************************************************************************)
EXTENDS Integers, Sequences, FiniteSets, TLC

\* ------------------------------------------------------------------ bounds

\* Number of frames the frame source delivers before it ends or fails.
MaxFrames == 3

\* Largest raw-FIFO capacity passed to NewStore.
MaxCapacity == 2

\* Largest number of data rows of a schema file given to the loaders.
MaxRows == 2

\* ------------------------------------------------------------ text helpers

RECURSIVE Pow(_, _)
Pow(b, e) == IF e = 0 THEN 1 ELSE b * Pow(b, e - 1)

\* strings.ToLower on ASCII text.
LowerChar(c) == IF c >= 65 /\ c <= 90 THEN c + 32 ELSE c
ToLower(s) == [i \in 1..Len(s) |-> LowerChar(s[i])]

\* The white space strings.TrimSpace removes (ASCII range).
IsSpace(c) == c \in {9, 10, 11, 12, 13, 32}

RECURSIVE TrimLeft(_)
TrimLeft(s) == IF s # <<>> /\ IsSpace(Head(s)) THEN TrimLeft(Tail(s)) ELSE s

RECURSIVE TrimRight(_)
TrimRight(s) ==
    IF s # <<>> /\ IsSpace(s[Len(s)]) THEN TrimRight(SubSeq(s, 1, Len(s) - 1)) ELSE s

TrimSpace(s) == TrimRight(TrimLeft(s))

HasPrefix(s, p) == Len(s) >= Len(p) /\ SubSeq(s, 1, Len(p)) = p

TrimPrefix(s, p) == IF HasPrefix(s, p) THEN SubSeq(s, Len(p) + 1, Len(s)) ELSE s

\* strings.EqualFold on ASCII text.
EqualFold(s, t) == ToLower(s) = ToLower(t)

\* Go's string < : bytewise lexicographic order.
RECURSIVE StrLess(_, _)
StrLess(s, t) ==
    IF t = <<>> THEN FALSE
    ELSE IF s = <<>> THEN TRUE
    ELSE IF Head(s) # Head(t) THEN Head(s) < Head(t)
    ELSE StrLess(Tail(s), Tail(t))

\* Value of one digit character in the given base, -1 when it is none.
DigitVal(c, base) ==
    LET v == IF c >= 48 /\ c <= 57 THEN c - 48
             ELSE IF c >= 97 /\ c <= 122 THEN c - 97 + 10
             ELSE IF c >= 65 /\ c <= 90 THEN c - 65 + 10
             ELSE -1
    IN IF v >= 0 /\ v < base THEN v ELSE -1

\* Uppercase hexadecimal digits, "0123456789ABCDEF".
HexDigits == <<48, 49, 50, 51, 52, 53, 54, 55, 56, 57, 65, 66, 67, 68, 69, 70>>

RECURSIVE HexUpper(_)
HexUpper(n) ==
    IF n < 16 THEN <<HexDigits[n + 1]>>
    ELSE HexUpper(n \div 16) \o <<HexDigits[(n % 16) + 1]>>

RECURSIVE PadLeft(_, _, _)
PadLeft(s, width, c) == IF Len(s) >= width THEN s ELSE PadLeft(<<c>> \o s, width, c)

\* ------------------------------------------------------------------- maps

\* A Go map as a function; the empty map has the empty domain.
EmptyMap == [k \in {} |-> {}]

MapPut(m, k, v) == [x \in (DOMAIN m) \cup {k} |-> IF x = k THEN v ELSE m[x]]

\* ---------------------------------------------------------------- float64

\* A float64 is a finite number (integers suffice for the inputs used here),
\* a NaN or an infinity.
Num(n) == [k |-> "num", v |-> n]
NaN == [k |-> "nan", v |-> 0]
PInf == [k |-> "inf", v |-> 1]
NInf == [k |-> "inf", v |-> -1]

Sign(n) == IF n > 0 THEN 1 ELSE IF n < 0 THEN -1 ELSE 0

\* IEEE-754 multiplication on that representation.
FMul(a, b) ==
    IF a.k = "nan" \/ b.k = "nan" THEN NaN
    ELSE IF a.k = "num" /\ b.k = "num" THEN Num(a.v * b.v)
    ELSE IF Sign(a.v) * Sign(b.v) = 0 THEN NaN
    ELSE [k |-> "inf", v |-> Sign(a.v) * Sign(b.v)]

\* IEEE-754 addition on that representation.
FAdd(a, b) ==
    IF a.k = "nan" \/ b.k = "nan" THEN NaN
    ELSE IF a.k = "num" /\ b.k = "num" THEN Num(a.v + b.v)
    ELSE IF a.k = "inf" /\ b.k = "inf" THEN (IF a.v = b.v THEN a ELSE NaN)
    ELSE IF a.k = "inf" THEN a ELSE b

\* clampFinite: NaN and the infinities become 0.
clampFinite(v) == IF v.k = "nan" \/ v.k = "inf" THEN Num(0) ELSE v

\* ---------------------------------------------------------- number parsing

\* strconv.ParseUint(s, base, bitSize) for base 10 and 16: no sign, no
\* prefix, at least one digit, every character a digit of the base, and the
\* value below 2^bitSize.
RECURSIVE DigitsValue(_, _, _, _)
DigitsValue(s, base, acc, limit) ==
    IF s = <<>> THEN acc
    ELSE IF acc >= limit THEN limit
    ELSE DigitsValue(Tail(s), base, acc * base + DigitVal(Head(s), base), limit)

AllDigits(s, base) == \A i \in 1..Len(s) : DigitVal(s[i], base) >= 0

\* The returned record is (value, err # nil); limit is 2^bitSize.  The
\* accumulation stops at the limit, so no intermediate value grows past it.
ParseUint(s, base, limit) ==
    IF s = <<>> \/ ~AllDigits(s, base) THEN [val |-> 0, err |-> TRUE]
    ELSE LET v == DigitsValue(s, base, 0, limit)
         IN IF v >= limit THEN [val |-> limit - 1, err |-> TRUE]
            ELSE [val |-> v, err |-> FALSE]

\* strconv.ParseFloat(s, 64) on the literals used here: an optionally signed
\* decimal integer, "nan", and an optionally signed "inf" or "infinity"
\* (case-insensitive).  Anything else is a syntax error.
ParseFloat(s) ==
    LET neg == s # <<>> /\ Head(s) = 45
        signed == s # <<>> /\ Head(s) \in {43, 45}
        body == IF signed THEN Tail(s) ELSE s
        low == ToLower(body)
    IN IF low = <<110, 97, 110>> /\ ~signed THEN [val |-> NaN, err |-> FALSE]
       ELSE IF low = <<105, 110, 102>> \/ low = <<105, 110, 102, 105, 110, 105, 116, 121>>
            THEN [val |-> IF neg THEN NInf ELSE PInf, err |-> FALSE]
       ELSE IF body # <<>> /\ AllDigits(body, 10)
            THEN [val |-> Num((IF neg THEN -1 ELSE 1) * DigitsValue(body, 10, 0, Pow(10, 6))),
                  err |-> FALSE]
       ELSE [val |-> Num(0), err |-> TRUE]

\* parseHexID: trim, lower-case, drop one "0x" prefix, parse as base-16
\* unsigned.  The identifiers of the schemas below are CAN identifiers (at
\* most 29 bits), so the range limit is taken at 2^30 here.
parseHexID(s) ==
    ParseUint(TrimPrefix(TrimSpace(ToLower(s)), <<48, 120>>), 16, Pow(2, 30))

\* ------------------------------------------------------------- CSV schema

\* Column names of the schema file.
ColDirection == <<100, 105, 114, 101, 99, 116, 105, 111, 110>>
ColFrameID == <<102, 114, 97, 109, 101, 95, 105, 100>>
ColFrameName == <<102, 114, 97, 109, 101, 95, 110, 97, 109, 101>>
ColDLC == <<100, 108, 99>>
ColSignalName == <<115, 105, 103, 110, 97, 108, 95, 110, 97, 109, 101>>
ColStartBit == <<115, 116, 97, 114, 116, 95, 98, 105, 116>>
ColBitLength == <<98, 105, 116, 95, 108, 101, 110, 103, 116, 104>>
ColEndianness == <<101, 110, 100, 105, 97, 110, 110, 101, 115, 115>>
ColSigned == <<115, 105, 103, 110, 101, 100>>
ColFactor == <<102, 97, 99, 116, 111, 114>>
ColOffset == <<111, 102, 102, 115, 101, 116>>
ColUnit == <<117, 110, 105, 116>>
ColComment == <<99, 111, 109, 109, 101, 110, 116>>

\* req: the required columns, in the order they are checked.
RequiredColumns ==
    <<ColDirection, ColFrameID, ColFrameName, ColDLC, ColSignalName, ColStartBit,
      ColBitLength, ColEndianness, ColSigned, ColFactor, ColOffset, ColUnit, ColComment>>

EndianLittle == <<108, 105, 116, 116, 108, 101>>
EndianBig == <<98, 105, 103>>

\* h: trimmed column name -> index of its last occurrence in the header
\* (0-based, as in the code).
HeaderIndex(header) ==
    [name \in {TrimSpace(header[i]) : i \in 1..Len(header)} |->
        (CHOOSE i \in 1..Len(header) :
            /\ TrimSpace(header[i]) = name
            /\ \A j \in 1..Len(header) : TrimSpace(header[j]) = name => j <= i) - 1]

\* A faulty column check: the last required column is not looked for.
MissingColumnButLast(h) ==
    IF \A i \in 1..(Len(RequiredColumns) - 1) : RequiredColumns[i] \in DOMAIN h THEN 0
    ELSE CHOOSE i \in 1..(Len(RequiredColumns) - 1) :
            /\ RequiredColumns[i] \notin DOMAIN h
            /\ \A j \in 1..(i - 1) : RequiredColumns[j] \in DOMAIN h

\* The first required column the header lacks, 0 when it has them all.
MissingColumn(h) ==
    IF \A i \in 1..Len(RequiredColumns) : RequiredColumns[i] \in DOMAIN h THEN 0
    ELSE CHOOSE i \in 1..Len(RequiredColumns) :
            /\ RequiredColumns[i] \notin DOMAIN h
            /\ \A j \in 1..(i - 1) : RequiredColumns[j] \in DOMAIN h

\* h[k]: the index of column k, 0 (the zero value) for a name the map lacks.
ColumnIndex(h, k) == IF k \in DOMAIN h THEN h[k] ELSE 0

\* get(k): the trimmed cell of column k, "" when the row is too short.
GetCell(h, row, k) ==
    IF ColumnIndex(h, k) >= Len(row) THEN <<>> ELSE TrimSpace(row[ColumnIndex(h, k) + 1])

\* The zero value of FrameDef, which a map lookup of a missing key returns.
ZeroFrameDef == [ID |-> 0, Name |-> <<>>, Signals |-> <<>>]

\* One iteration of the row loop: the error of the row, or the frames map
\* with the row's SignalDef appended to its frame.
LoadRow(h, row, frames) ==
    LET id == parseHexID(GetCell(h, row, ColFrameID))
        startBit == ParseUint(GetCell(h, row, ColStartBit), 10, 256)
        bitLen == ParseUint(GetCell(h, row, ColBitLength), 10, 256)
        factor == ParseFloat(GetCell(h, row, ColFactor))
        offset == ParseFloat(GetCell(h, row, ColOffset))
        frameName == GetCell(h, row, ColFrameName)
        def == [FrameID |-> id.val,
                FrameName |-> frameName,
                SignalName |-> GetCell(h, row, ColSignalName),
                StartBit |-> startBit.val,
                BitLength |-> bitLen.val,
                Endianness |-> ToLower(GetCell(h, row, ColEndianness)),
                Signed |-> EqualFold(GetCell(h, row, ColSigned), <<116, 114, 117, 101>>),
                Factor |-> factor.val,
                Offset |-> offset.val,
                Unit |-> GetCell(h, row, ColUnit),
                Direction |-> ToLower(GetCell(h, row, ColDirection)),
                Comment |-> GetCell(h, row, ColComment)]
        found == IF id.val \in DOMAIN frames THEN frames[id.val] ELSE ZeroFrameDef
        fd == IF found.ID = 0
              THEN [ID |-> id.val, Name |-> frameName, Signals |-> <<>>]
              ELSE found
    IN IF id.err THEN [err |-> "bad frame_id", frames |-> frames]
       ELSE IF startBit.err THEN [err |-> "bad start_bit", frames |-> frames]
       ELSE IF bitLen.err THEN [err |-> "bad bit_length", frames |-> frames]
       ELSE IF factor.err THEN [err |-> "bad factor", frames |-> frames]
       ELSE IF offset.err THEN [err |-> "bad offset", frames |-> frames]
       ELSE [err |-> "nil",
             frames |-> MapPut(frames, id.val, [fd EXCEPT !.Signals = Append(@, def)])]

\* A faulty row loop: a row in error is skipped.
RECURSIVE LoadRowsSkipBad(_, _, _, _)
LoadRowsSkipBad(h, records, i, frames) ==
    IF i > Len(records) THEN [err |-> "nil", frames |-> frames]
    ELSE LoadRowsSkipBad(h, records, i + 1, LoadRow(h, records[i], frames).frames)

\* The row loop over records[i..], stopping at the first row in error.
RECURSIVE LoadRows(_, _, _, _)
LoadRows(h, records, i, frames) ==
    IF i > Len(records) THEN [err |-> "nil", frames |-> frames]
    ELSE LET r == LoadRow(h, records[i], frames)
         IN IF r.err # "nil" THEN r ELSE LoadRows(h, records, i + 1, r.frames)

\* A faulty loader: the signals stay in row order.
SortSkipped(sigs) == {sigs}

\* sort.Slice by StartBit: the sort is not stable, so every arrangement of
\* the signals that ascends by start bit is a possible outcome.
SortByStartBit(sigs) ==
    LET n == Len(sigs)
        perms == {p \in [1..n -> 1..n] : \A i, j \in 1..n : i # j => p[i] # p[j]}
    IN {[i \in 1..n |-> sigs[p[i]]] : p \in
            {q \in perms : \A i \in 1..(n - 1) :
                ~(sigs[q[i + 1]].StartBit < sigs[q[i]].StartBit)}}

\* The frame tables the final sorting loop can leave.
SortFrames(frames) ==
    {t \in [DOMAIN frames -> UNION {{[frames[id] EXCEPT !.Signals = s] :
                                        s \in SortByStartBit(frames[id].Signals)} :
                                    id \in DOMAIN frames}] :
        \A id \in DOMAIN frames :
            /\ t[id].ID = frames[id].ID
            /\ t[id].Name = frames[id].Name
            /\ t[id].Signals \in SortByStartBit(frames[id].Signals)}

\* LoadCANMap on the records csv.ReadAll returned: the set of (frames, err)
\* results it can return; on an error the frames are nil.
LoadCANMap(records) ==
    IF Len(records) < 2 THEN {[err |-> "csv has no data rows", isNil |-> TRUE, frames |-> EmptyMap]}
    ELSE LET h == HeaderIndex(records[1])
         IN IF MissingColumn(h) # 0
            THEN {[err |-> "missing required column", isNil |-> TRUE, frames |-> EmptyMap]}
            ELSE LET r == LoadRows(h, records, 2, EmptyMap)
                 IN IF r.err # "nil"
                    THEN {[err |-> r.err, isNil |-> TRUE, frames |-> EmptyMap]}
                    ELSE {[err |-> "nil", isNil |-> FALSE, frames |-> t] :
                            t \in SortFrames(r.frames)}

\* csv.Reader.ReadAll with FieldsPerRecord = 0: every record must have as
\* many fields as the first one, or the read fails (csv.ErrFieldCount).
\* The fields are given as the reader of main.go splits them; the reader of
\* the refactored loader also drops the leading white space of each field
\* (TrimLeadingSpace), which the TrimSpace calls of that loader subsume.
FieldCountError(file) == \E i \in 1..Len(file) : Len(file[i]) # Len(file[1])

\* LoadCANMap from the file on: ReadAll, then the loader proper.
ReadAndLoad(file) ==
    IF FieldCountError(file)
    THEN {[err |-> "wrong number of fields", isNil |-> TRUE, frames |-> EmptyMap]}
    ELSE LoadCANMap(file)

\* ------------------------------------------- the earlier loader (main.go)

\* strconv.Atoi with its error dropped (atoi): an optionally signed decimal
\* number, 0 for anything else.
Atoi(s) ==
    LET signed == s # <<>> /\ Head(s) \in {43, 45}
        body == IF signed THEN Tail(s) ELSE s
        mag == DigitsValue(body, 10, 0, Pow(10, 6))
    IN IF body = <<>> \/ ~AllDigits(body, 10) THEN 0
       ELSE IF signed /\ Head(s) = 45 THEN 0 - mag ELSE mag

\* h of main.go: column name as written -> index of its last occurrence.
LegacyHeaderIndex(header) ==
    [name \in {header[i] : i \in 1..Len(header)} |->
        (CHOOSE i \in 1..Len(header) :
            /\ header[i] = name
            /\ \A j \in 1..Len(header) : header[j] = name => j <= i) - 1]

\* row[h["name"]]: the cell as written.
LegacyCell(h, row, k) == row[ColumnIndex(h, k) + 1]

\* One iteration of the row loop of main.go: parse errors are dropped (the
\* value is then the zero the parser returned), nothing is trimmed or
\* lower-cased but the signed flag, and the frame takes the row's name.
LegacyLoadRow(h, row, frames) ==
    LET id == ParseUint(TrimPrefix(LegacyCell(h, row, ColFrameID), <<48, 120>>), 16,
                        Pow(2, 30)).val
        def == [FrameID |-> id,
                FrameName |-> LegacyCell(h, row, ColFrameName),
                SignalName |-> LegacyCell(h, row, ColSignalName),
                StartBit |-> Atoi(LegacyCell(h, row, ColStartBit)),
                BitLength |-> Atoi(LegacyCell(h, row, ColBitLength)),
                Endianness |-> LegacyCell(h, row, ColEndianness),
                Signed |-> ToLower(LegacyCell(h, row, ColSigned)) = <<116, 114, 117, 101>>,
                Factor |-> ParseFloat(LegacyCell(h, row, ColFactor)).val,
                Offset |-> ParseFloat(LegacyCell(h, row, ColOffset)).val,
                Unit |-> LegacyCell(h, row, ColUnit),
                Direction |-> LegacyCell(h, row, ColDirection),
                Comment |-> LegacyCell(h, row, ColComment)]
        fd == IF id \in DOMAIN frames THEN frames[id] ELSE ZeroFrameDef
    IN MapPut(frames, id,
              [ID |-> id, Name |-> def.FrameName, Signals |-> Append(fd.Signals, def)])

RECURSIVE LegacyLoadRows(_, _, _, _)
LegacyLoadRows(h, rows, i, frames) ==
    IF i > Len(rows) THEN frames
    ELSE LegacyLoadRows(h, rows, i + 1, LegacyLoadRow(h, rows[i], frames))

\* LoadCANMap of main.go from the file on.  rows[0] of a file without
\* records is an index out of range: the loader panics.
LegacyLoadCANMap(file) ==
    IF FieldCountError(file)
    THEN [err |-> "wrong number of fields", isNil |-> TRUE, frames |-> EmptyMap]
    ELSE IF Len(file) = 0 THEN [err |-> "panic", isNil |-> TRUE, frames |-> EmptyMap]
    ELSE [err |-> "nil", isNil |-> FALSE,
          frames |-> LegacyLoadRows(LegacyHeaderIndex(file[1]), file, 2, EmptyMap)]

\* ------------------------------------------------------------ bit decoding

\* Bit i (0 = least significant) of the payload packed little-endian: byte 0
\* holds bits 0..7.  Bits past the payload read as 0, as a shift past the
\* width does.
BitLE(d, i) == IF i < 0 \/ i > 63 THEN 0 ELSE (d[(i \div 8) + 1] \div Pow(2, i % 8)) % 2

\* Bit i of the payload packed big-endian: byte 0 holds bits 56..63.
BitBE(d, i) == IF i < 0 \/ i > 63 THEN 0 ELSE (d[8 - (i \div 8)] \div Pow(2, i % 8)) % 2

\* The length bits from bit lsb upwards of the packed payload, as a number.
RECURSIVE SumBits(_, _, _, _)
SumBits(big, d, lsb, length) ==
    IF length = 0 THEN 0
    ELSE (IF big THEN BitBE(d, lsb) ELSE BitLE(d, lsb))
            + 2 * SumBits(big, d, lsb + 1, length - 1)

\* Data.UnsignedBitsLittleEndian(start, length): (packed >> start) masked to
\* length bits.
UnsignedBitsLittleEndian(d, start, length) == SumBits(FALSE, d, start, length)

\* Data.UnsignedBitsBigEndian(start, length): start names the most
\* significant bit in the little-endian numbering of its byte row.
UnsignedBitsBigEndian(d, start, length) ==
    LET msbIndex == (7 - (start \div 8)) * 8 + (start % 8)
    IN SumBits(TRUE, d, msbIndex - length + 1, length)

\* Two's complement reading of an unsigned value of the given width.
AsSigned(u, length) ==
    IF length > 0 /\ u >= Pow(2, length - 1) THEN u - Pow(2, length) ELSE u

\* A faulty decoder: an endianness that is neither little nor big is read
\* as little.
decodeSignalDefaultLittle(d, sig) ==
    LET u == IF sig.Endianness = EndianBig
             THEN UnsignedBitsBigEndian(d, sig.StartBit, sig.BitLength)
             ELSE UnsignedBitsLittleEndian(d, sig.StartBit, sig.BitLength)
        raw == IF sig.Signed THEN AsSigned(u, sig.BitLength) ELSE u
    IN FAdd(FMul(Num(raw), sig.Factor), sig.Offset)

\* decodeSignal: raw*Factor + Offset, raw being 0 for an endianness that is
\* neither little nor big.
decodeSignal(d, sig) ==
    LET u == IF sig.Endianness = EndianLittle
             THEN UnsignedBitsLittleEndian(d, sig.StartBit, sig.BitLength)
             ELSE IF sig.Endianness = EndianBig
             THEN UnsignedBitsBigEndian(d, sig.StartBit, sig.BitLength)
             ELSE 0
        raw == IF sig.Signed /\ sig.Endianness \in {EndianLittle, EndianBig}
               THEN AsSigned(u, sig.BitLength)
               ELSE u
    IN FAdd(FMul(Num(raw), sig.Factor), sig.Offset)

\* ------------------------------------------------------------- formatting

\* fmt.Sprintf("0x%03X", frameID): "0x", then the identifier in uppercase
\* hexadecimal, zero-padded to at least three digits.
FormatID(frameID) == <<48, 120>> \o PadLeft(HexUpper(frameID), 3, 48)

\* strings.ToUpper(hex.EncodeToString(data)): two uppercase digits per byte.
RECURSIVE HexEncodeUpper(_)
HexEncodeUpper(data) ==
    IF data = <<>> THEN <<>>
    ELSE <<HexDigits[(Head(data) \div 16) + 1], HexDigits[(Head(data) % 16) + 1]>>
            \o HexEncodeUpper(Tail(data))

\* safeASCII: printable bytes as they are, every other byte as '.'.
safeASCII(b) == [i \in 1..Len(b) |-> IF b[i] >= 32 /\ b[i] <= 126 THEN b[i] ELSE 46]

\* The RawFrame RunCANReader builds for a received frame at time ts.
MakeRawFrame(f, ts) ==
    LET data == SubSeq(f.Data, 1, f.Length)
    IN [TS |-> ts,
        ID |-> FormatID(f.ID),
        DLC |-> f.Length,
        DataHex |-> HexEncodeUpper(data),
        DataASCII |-> safeASCII(data)]

\* The SignalValue RunCANReader builds for signal sig of frame definition
\* def, decoded from frame f at time ts.
MakeSignalValue(f, def, sig, ts) ==
    [Name |-> sig.SignalName,
     Value |-> clampFinite(decodeSignal(f.Data, sig)),
     Unit |-> sig.Unit,
     FrameID |-> FormatID(f.ID),
     FrameName |-> def.Name,
     UpdatedAt |-> ts,
     Dir |-> sig.Direction,
     Comment |-> sig.Comment]

\* ------------------------------------------------------------------ inputs

\* A well-formed schema file.  The rows of each frame are apart and out of
\* start-bit order; the pairs (A.B, x) and (A, B.x) have the same store key.
\*   rx,0x100,A.B,8,y,8,8,little,false,1,0,V,
\*   TX,0x200,A,8,z,12,4,big,true,2,1,A,
\*   rx,0x100,A.B,8,x,0,8,Little,false,1,0,V,
\*   tx,0x200,A,8,B.x,4,8,big,false,1,0,A,
SchemaRecords ==
    <<RequiredColumns,
      <<<<114, 120>>, <<48, 120, 49, 48, 48>>, <<65, 46, 66>>, <<56>>, <<121>>, <<56>>,
        <<56>>, <<108, 105, 116, 116, 108, 101>>, <<102, 97, 108, 115, 101>>, <<49>>,
        <<48>>, <<86>>, <<>>>>,
      <<<<84, 88>>, <<48, 120, 50, 48, 48>>, <<65>>, <<56>>, <<122>>, <<49, 50>>, <<52>>,
        <<98, 105, 103>>, <<116, 114, 117, 101>>, <<50>>, <<49>>, <<65>>, <<>>>>,
      <<<<114, 120>>, <<48, 120, 49, 48, 48>>, <<65, 46, 66>>, <<56>>, <<120>>, <<48>>,
        <<56>>, <<76, 105, 116, 116, 108, 101>>, <<102, 97, 108, 115, 101>>, <<49>>, <<48>>,
        <<86>>, <<>>>>,
      <<<<116, 120>>, <<48, 120, 50, 48, 48>>, <<65>>, <<56>>, <<66, 46, 120>>, <<52>>,
        <<56>>, <<98, 105, 103>>, <<102, 97, 108, 115, 101>>, <<49>>, <<48>>, <<65>>, <<>>>>>>

\* The data rows the schema files are made of: well-formed rows (two frame
\* names and an upper-case spelling for 0x100, equal start bits, the
\* identifier 0 twice, a start bit and a bit length past 64 bits, a bit
\* length of 0, an endianness that is neither little nor big), rows with an
\* unparsable frame_id, start_bit, bit_length, factor or offset, and a row
\* one field short.
\*   rx,0x100,A,8,y,8,8,little,false,1,0,V,
\*   TX, 0X100 ,B,8,x,0,8,Big,TRUE,2,1,V,
\*   rx,0x100,A,8,z,8,4,big,false,1,0,V,
\*   rx,0x0,Z,8,p,0,8,little,false,1,0,,
\*   rx,0,Y,8,q,8,8,little,false,1,0,,
\*   rx,0x200,C,8,w,200,100,little,false,1,0,,
\*   rx,0x200,C,8,e,0,0,little,false,1,0,,
\*   rx,0x300,D,8,m,0,8,Middle,false,2,5,,
\*   rx,0xZZ,E,8,a,0,8,little,false,1,0,,
\*   rx,0x400,E,8,b,256,8,little,false,1,0,,
\*   rx,0x400,E,8,c,0,,little,false,1,0,,
\*   rx,0x400,E,8,d,0,8,little,false,abc,0,,
\*   rx,0x400,E,8,f,0,8,little,false,1,-,,
\*   rx,0x400,E,8,g,0,8,little,false,1,0,
RowPool ==
    <<<<<<114, 120>>, <<48, 120, 49, 48, 48>>, <<65>>, <<56>>, <<121>>, <<56>>, <<56>>,
        <<108, 105, 116, 116, 108, 101>>, <<102, 97, 108, 115, 101>>, <<49>>, <<48>>,
        <<86>>, <<>>>>,
      <<<<84, 88>>, <<32, 48, 88, 49, 48, 48, 32>>, <<66>>, <<56>>, <<120>>, <<48>>,
        <<56>>, <<66, 105, 103>>, <<84, 82, 85, 69>>, <<50>>, <<49>>, <<86>>, <<>>>>,
      <<<<114, 120>>, <<48, 120, 49, 48, 48>>, <<65>>, <<56>>, <<122>>, <<56>>, <<52>>,
        <<98, 105, 103>>, <<102, 97, 108, 115, 101>>, <<49>>, <<48>>, <<86>>, <<>>>>,
      <<<<114, 120>>, <<48, 120, 48>>, <<90>>, <<56>>, <<112>>, <<48>>, <<56>>,
        <<108, 105, 116, 116, 108, 101>>, <<102, 97, 108, 115, 101>>, <<49>>, <<48>>, <<>>,
        <<>>>>,
      <<<<114, 120>>, <<48>>, <<89>>, <<56>>, <<113>>, <<56>>, <<56>>,
        <<108, 105, 116, 116, 108, 101>>, <<102, 97, 108, 115, 101>>, <<49>>, <<48>>, <<>>,
        <<>>>>,
      <<<<114, 120>>, <<48, 120, 50, 48, 48>>, <<67>>, <<56>>, <<119>>, <<50, 48, 48>>,
        <<49, 48, 48>>, <<108, 105, 116, 116, 108, 101>>, <<102, 97, 108, 115, 101>>,
        <<49>>, <<48>>, <<>>, <<>>>>,
      <<<<114, 120>>, <<48, 120, 50, 48, 48>>, <<67>>, <<56>>, <<101>>, <<48>>, <<48>>,
        <<108, 105, 116, 116, 108, 101>>, <<102, 97, 108, 115, 101>>, <<49>>, <<48>>, <<>>,
        <<>>>>,
      <<<<114, 120>>, <<48, 120, 51, 48, 48>>, <<68>>, <<56>>, <<109>>, <<48>>, <<56>>,
        <<77, 105, 100, 100, 108, 101>>, <<102, 97, 108, 115, 101>>, <<50>>, <<53>>, <<>>,
        <<>>>>,
      <<<<114, 120>>, <<48, 120, 90, 90>>, <<69>>, <<56>>, <<97>>, <<48>>, <<56>>,
        <<108, 105, 116, 116, 108, 101>>, <<102, 97, 108, 115, 101>>, <<49>>, <<48>>, <<>>,
        <<>>>>,
      <<<<114, 120>>, <<48, 120, 52, 48, 48>>, <<69>>, <<56>>, <<98>>, <<50, 53, 54>>,
        <<56>>, <<108, 105, 116, 116, 108, 101>>, <<102, 97, 108, 115, 101>>, <<49>>,
        <<48>>, <<>>, <<>>>>,
      <<<<114, 120>>, <<48, 120, 52, 48, 48>>, <<69>>, <<56>>, <<99>>, <<48>>, <<>>,
        <<108, 105, 116, 116, 108, 101>>, <<102, 97, 108, 115, 101>>, <<49>>, <<48>>, <<>>,
        <<>>>>,
      <<<<114, 120>>, <<48, 120, 52, 48, 48>>, <<69>>, <<56>>, <<100>>, <<48>>, <<56>>,
        <<108, 105, 116, 116, 108, 101>>, <<102, 97, 108, 115, 101>>, <<97, 98, 99>>,
        <<48>>, <<>>, <<>>>>,
      <<<<114, 120>>, <<48, 120, 52, 48, 48>>, <<69>>, <<56>>, <<102>>, <<48>>, <<56>>,
        <<108, 105, 116, 116, 108, 101>>, <<102, 97, 108, 115, 101>>, <<49>>, <<45>>, <<>>,
        <<>>>>,
      <<<<114, 120>>, <<48, 120, 52, 48, 48>>, <<69>>, <<56>>, <<103>>, <<48>>, <<56>>,
        <<108, 105, 116, 116, 108, 101>>, <<102, 97, 108, 115, 101>>, <<49>>, <<48>>, <<>>>>>>

\* The header rows of the schema files: the required columns; the same with
\* white space around two names; without the comment column; with frame_id
\* spelled Frame_ID.
\*   direction,frame_id,frame_name,dlc,signal_name,start_bit,bit_length,endianness,signed,factor,offset,unit,comment
\*   direction, frame_id ,frame_name,dlc,signal_name,start_bit,bit_length,endianness,signed,factor,offset,unit,comment 
\*   direction,frame_id,frame_name,dlc,signal_name,start_bit,bit_length,endianness,signed,factor,offset,unit
\*   direction,Frame_ID,frame_name,dlc,signal_name,start_bit,bit_length,endianness,signed,factor,offset,unit,comment
Headers ==
    {<<<<100, 105, 114, 101, 99, 116, 105, 111, 110>>,
        <<102, 114, 97, 109, 101, 95, 105, 100>>,
        <<102, 114, 97, 109, 101, 95, 110, 97, 109, 101>>, <<100, 108, 99>>,
        <<115, 105, 103, 110, 97, 108, 95, 110, 97, 109, 101>>,
        <<115, 116, 97, 114, 116, 95, 98, 105, 116>>,
        <<98, 105, 116, 95, 108, 101, 110, 103, 116, 104>>,
        <<101, 110, 100, 105, 97, 110, 110, 101, 115, 115>>,
        <<115, 105, 103, 110, 101, 100>>, <<102, 97, 99, 116, 111, 114>>,
        <<111, 102, 102, 115, 101, 116>>, <<117, 110, 105, 116>>,
        <<99, 111, 109, 109, 101, 110, 116>>>>,
      <<<<100, 105, 114, 101, 99, 116, 105, 111, 110>>,
        <<32, 102, 114, 97, 109, 101, 95, 105, 100, 32>>,
        <<102, 114, 97, 109, 101, 95, 110, 97, 109, 101>>, <<100, 108, 99>>,
        <<115, 105, 103, 110, 97, 108, 95, 110, 97, 109, 101>>,
        <<115, 116, 97, 114, 116, 95, 98, 105, 116>>,
        <<98, 105, 116, 95, 108, 101, 110, 103, 116, 104>>,
        <<101, 110, 100, 105, 97, 110, 110, 101, 115, 115>>,
        <<115, 105, 103, 110, 101, 100>>, <<102, 97, 99, 116, 111, 114>>,
        <<111, 102, 102, 115, 101, 116>>, <<117, 110, 105, 116>>,
        <<99, 111, 109, 109, 101, 110, 116, 32>>>>,
      <<<<100, 105, 114, 101, 99, 116, 105, 111, 110>>,
        <<102, 114, 97, 109, 101, 95, 105, 100>>,
        <<102, 114, 97, 109, 101, 95, 110, 97, 109, 101>>, <<100, 108, 99>>,
        <<115, 105, 103, 110, 97, 108, 95, 110, 97, 109, 101>>,
        <<115, 116, 97, 114, 116, 95, 98, 105, 116>>,
        <<98, 105, 116, 95, 108, 101, 110, 103, 116, 104>>,
        <<101, 110, 100, 105, 97, 110, 110, 101, 115, 115>>,
        <<115, 105, 103, 110, 101, 100>>, <<102, 97, 99, 116, 111, 114>>,
        <<111, 102, 102, 115, 101, 116>>, <<117, 110, 105, 116>>>>,
      <<<<100, 105, 114, 101, 99, 116, 105, 111, 110>>,
        <<70, 114, 97, 109, 101, 95, 73, 68>>,
        <<102, 114, 97, 109, 101, 95, 110, 97, 109, 101>>, <<100, 108, 99>>,
        <<115, 105, 103, 110, 97, 108, 95, 110, 97, 109, 101>>,
        <<115, 116, 97, 114, 116, 95, 98, 105, 116>>,
        <<98, 105, 116, 95, 108, 101, 110, 103, 116, 104>>,
        <<101, 110, 100, 105, 97, 110, 110, 101, 115, 115>>,
        <<115, 105, 103, 110, 101, 100>>, <<102, 97, 99, 116, 111, 114>>,
        <<111, 102, 102, 115, 101, 116>>, <<117, 110, 105, 116>>,
        <<99, 111, 109, 109, 101, 110, 116>>>>}

\* The first n fields of a row: a file whose header has fewer columns has
\* rows of as many fields.
Fit(row, n) == IF Len(row) > n THEN SubSeq(row, 1, n) ELSE row

\* The schema files: an empty file, and every header followed by up to
\* MaxRows rows of the pool.
SchemaFiles ==
    {<<>>} \cup
    {<<h>> \o [i \in 1..Len(ix) |-> Fit(RowPool[ix[i]], Len(h))] :
        h \in Headers, ix \in UNION {[1..k -> 1..Len(RowPool)] : k \in 0..MaxRows}}

\* Rows for frame 0x100 whose endianness is neither little nor big, with
\* several factors and offsets.
\*   rx,0x100,F,8,m,0,8,Middle,false,1,0,V,
\*   rx,0x100,F,8,m,0,8,Middle,false,2,5,V,
\*   rx,0x100,F,8,m,0,8,,true,inf,5,V,
\*   rx,0x100,F,8,m,0,8,,true,3,nan,V,
EndianRows ==
    <<<<<<114, 120>>, <<48, 120, 49, 48, 48>>, <<70>>, <<56>>, <<109>>, <<48>>, <<56>>,
        <<77, 105, 100, 100, 108, 101>>, <<102, 97, 108, 115, 101>>, <<49>>, <<48>>,
        <<86>>, <<>>>>,
      <<<<114, 120>>, <<48, 120, 49, 48, 48>>, <<70>>, <<56>>, <<109>>, <<48>>, <<56>>,
        <<77, 105, 100, 100, 108, 101>>, <<102, 97, 108, 115, 101>>, <<50>>, <<53>>,
        <<86>>, <<>>>>,
      <<<<114, 120>>, <<48, 120, 49, 48, 48>>, <<70>>, <<56>>, <<109>>, <<48>>, <<56>>,
        <<>>, <<116, 114, 117, 101>>, <<105, 110, 102>>, <<53>>, <<86>>, <<>>>>,
      <<<<114, 120>>, <<48, 120, 49, 48, 48>>, <<70>>, <<56>>, <<109>>, <<48>>, <<56>>,
        <<>>, <<116, 114, 117, 101>>, <<51>>, <<110, 97, 110>>, <<86>>, <<>>>>>>

\* One schema file per such row.
EndianFiles == {<<RequiredColumns, EndianRows[i]>> : i \in 1..Len(EndianRows)}

\* The frames the frame source can deliver: one of each mapped frame, 0x100
\* and 0x200, and one frame the schema lacks.
FrameInputs ==
    {[ID |-> 256, Length |-> 2, Data |-> <<65, 16, 0, 0, 0, 0, 0, 0>>],
     [ID |-> 512, Length |-> 2, Data |-> <<156, 90, 0, 0, 0, 0, 0, 0>>],
     [ID |-> 768, Length |-> 0, Data |-> <<0, 0, 0, 0, 0, 0, 0, 0>>]}

\* Errors socketcan.DialContext can fail with.
DialErrors == {"ENODEV"}

\* The terminal error the receiver can report through recv.Err().
RecvErrors == {"EIO"}

\* The handler goroutines of the web server that call Snapshot.
Readers == {"h1"}

\* Two handler goroutines that call Snapshot at the same time.
Handlers == {"h1", "h2"}

\* The frames of a source that only delivers the mapped frame 0x100.
MappedFrames == {f \in FrameInputs : f.ID = 256}

\* The addresses at which a backing array can be allocated: one for the
\* store, two for the snapshot of each handler, and one for the array that
\* append allocates while the store still holds the old one.
Addrs == 1..(2 * Cardinality(Handlers) + 2)

\* The connections the web server can have accepted.
Conns == {"c1", "c2"}

\* ------------------------------------------------------------------- state

VARIABLES
    defs,         \* the frame table LoadCANMap returned, handed to RunCANReader
    signals,      \* Store.signals: key -> SignalValue
    rawFrames,    \* Store.rawFrames: the raw FIFO, oldest first
    rawCapacity,  \* Store.rawCapacity
    muWriter,     \* Store.mu: the ingestion goroutine holds the write lock
    muPending,    \* Store.mu: a Lock call is waiting for the readers to leave
    muReaders,    \* Store.mu: the handlers that hold the read lock
    pc,           \* RunCANReader: where the ingestion goroutine is
    status,       \* RunCANReader: Connecting, Streaming or Stopped
    ret,          \* RunCANReader: what it returned
    frame,        \* RunCANReader: f, the frame recv.Frame() gave
    def,          \* RunCANReader: def, the frame definition found for f
    sigIdx,       \* RunCANReader: position of the range loop over def.Signals
    arg,          \* the argument of the PushRaw or UpsertSignal call under way
    connErr,      \* RunCANReader: err of socketcan.DialContext
    recvErr,      \* RunCANReader: recv.Err() once recv.Receive() returned false
    cancelled,    \* ctx.Done() is closed
    delivered,    \* number of frames recv.Receive() has delivered
    clock,        \* what time.Now() returns next
    rpc,          \* per handler: where its Snapshot call is
    snap,         \* per handler: the (signals, raw) its Snapshot builds
    log,          \* history: the calls the ingestion goroutine completed
    commits       \* history: the store contents between completed operations

\* The schema loader, run once before the ingestion loop starts.
VARIABLES
    records,      \* LoadCANMap: the rows of fields of the schema file
    loadPc,       \* how far the two loaders have run on the file
    loaded,       \* what LoadCANMap returned
    legacy        \* what the earlier LoadCANMap (main.go) returned

\* The web server StartWebServer runs.
VARIABLES
    swPc,         \* StartWebServer: where the calling goroutine is
    swRet,        \* StartWebServer: what it returned
    srvErr,       \* StartWebServer: err of srv.ListenAndServe()
    sdPc,         \* the goroutine that shuts the server down on ctx.Done()
    inShutdown,   \* http.Server: Shutdown or Close was called
    listening,    \* http.Server: the listener is open
    conns,        \* http.Server: per connection, absent, active or idle
    elapsed       \* seconds since Shutdown was called

\* The memory behind the slices of the store and of the snapshots.
VARIABLES
    build,        \* which Store is in use: the refactored one or the earlier one
    heap,         \* per address, the cells of the backing array allocated there
    rawSlice,     \* the slice s.rawFrames: its array, offset, length and capacity
    snapSigs,     \* per handler: the slice of signals its Snapshot returned
    snapRaw       \* per handler: the slice of raw frames its Snapshot returned

loaderVars == <<records, loadPc, loaded, legacy>>
memVars == <<build, heap, rawSlice, snapSigs, snapRaw>>
serverVars == <<swPc, swRet, srvErr, sdPc, inShutdown, listening, conns, elapsed>>
storeVars == <<signals, rawFrames, rawCapacity>>
muVars == <<muWriter, muPending, muReaders>>
loopVars == <<pc, status, ret, frame, def, sigIdx, arg, connErr, recvErr, delivered, clock>>
readerVars == <<rpc, snap>>
ingestVars == <<defs, storeVars, muVars, loopVars, cancelled, readerVars, log, commits>>
vars == <<loaderVars, serverVars, memVars, ingestVars>>

\* RunCANReader has not returned.
Running == [kind |-> "running", cause |-> "none"]
\* RunCANReader returned nil.
RetNil == [kind |-> "nil", cause |-> "none"]

NoFrame == [ID |-> 0, Length |-> 0, Data |-> <<0, 0, 0, 0, 0, 0, 0, 0>>]
NoArg == [op |-> "none"]
NoSnap == [signals |-> <<>>, raw |-> <<>>]

\* The contents of the store as one value.
StoreState == [signals |-> signals, raw |-> rawFrames]

\* No loader has returned yet.
NoResult == [err |-> "none", isNil |-> TRUE, frames |-> EmptyMap]

\* The nil slice.
NilSlice == [arr |-> 0, off |-> 0, len |-> 0, cap |-> 0]

\* No slice of the given handlers or of the store has a backing array yet.
NothingAllocated(handlers) ==
    /\ heap = [a \in Addrs |-> <<>>]
    /\ rawSlice = NilSlice
    /\ snapSigs = [r \in handlers |-> NilSlice]
    /\ snapRaw = [r \in handlers |-> NilSlice]

\* StartWebServer has not been called.
ServerNotStarted ==
    /\ swPc = "NotStarted"
    /\ swRet = "none"
    /\ srvErr = "unset"
    /\ sdPc = "NotStarted"
    /\ inShutdown = FALSE
    /\ listening = FALSE
    /\ conns = [c \in Conns |-> "absent"]
    /\ elapsed = 0

\* The state in which RunCANReader and the handlers start: the loader has
\* returned a frame table for the file without error, NewStore(capacity)
\* made an empty store, and the handlers serve no request.
StartedAs(file, capacities, handlers, builds) ==
    /\ build \in builds
    /\ NothingAllocated(handlers)
    /\ records = file
    /\ loadPc = "new"
    /\ loaded \in {x \in ReadAndLoad(file) : x.err = "nil"}
    /\ legacy = NoResult
    /\ ServerNotStarted
    /\ defs = loaded.frames
    /\ signals = EmptyMap
    /\ rawFrames = <<>>
    /\ rawCapacity \in capacities
    /\ muWriter = FALSE
    /\ muPending = FALSE
    /\ muReaders = {}
    /\ pc = "Dial"
    /\ status = "Connecting"
    /\ ret = Running
    /\ frame = NoFrame
    /\ def = ZeroFrameDef
    /\ sigIdx = 0
    /\ arg = NoArg
    /\ connErr = "unset"
    /\ recvErr = "unset"
    /\ cancelled = FALSE
    /\ delivered = 0
    /\ clock = 1
    /\ rpc = [r \in handlers |-> "idle"]
    /\ snap = [r \in handlers |-> NoSnap]
    /\ log = <<>>
    /\ commits = {[signals |-> EmptyMap, raw |-> <<>>]}

\* The same with the refactored Store, whose memory the specifications
\* other than CopySpec do not follow.
Started(file, capacities, handlers) == StartedAs(file, capacities, handlers, {"refactored"})

\* NewStore(rawCapacity) with an empty map and no raw frames; the frame
\* table is one LoadCANMap returned without error.
Init == Started(SchemaRecords, 1..MaxCapacity, Readers)

\* ------------------------------------------------------------------ Store

\* The map key of UpsertSignal: fmt.Sprintf("%s.%s", v.FrameName, v.Name).
SignalKey(v) == v.FrameName \o <<46>> \o v.Name

\* The zero value of SignalValue.
ZeroSignalValue ==
    [Name |-> <<>>, Value |-> Num(0), Unit |-> <<>>, FrameID |-> <<>>,
     FrameName |-> <<>>, UpdatedAt |-> 0, Dir |-> <<>>, Comment |-> <<>>]

\* The map entry while the struct assignment s.signals[key] = v is half
\* done: the first four fields are v's, the rest still the old entry's (the
\* zero value's for a new key).
HalfWritten(m, v) ==
    LET old == IF SignalKey(v) \in DOMAIN m THEN m[SignalKey(v)] ELSE ZeroSignalValue
    IN [old EXCEPT !.Name = v.Name, !.Value = v.Value, !.Unit = v.Unit, !.FrameID = v.FrameID]

\* A faulty upsert: an existing entry is kept, the first write wins.
StoreSignalIfAbsent(m, v) ==
    IF SignalKey(v) \in DOMAIN m THEN m ELSE MapPut(m, SignalKey(v), v)

\* s.signals[key] = v
StoreSignal(m, v) == MapPut(m, SignalKey(v), v)

\* A faulty eviction: the window keeps the oldest records instead of the
\* newest.
EvictKeepsOldest(q, capacity) ==
    IF Len(q) > capacity THEN SubSeq(q, 1, capacity) ELSE q

\* The eviction of PushRaw: keep the last rawCapacity records.
Evict(q, capacity) ==
    IF Len(q) > capacity THEN SubSeq(q, Len(q) - capacity + 1, Len(q)) ELSE q

\* A faulty less function: the signal name is not compared.
LessByFrameNameOnly(a, b) == StrLess(a.FrameName, b.FrameName)

\* The less function of Snapshot's sort.Slice.
SnapshotLess(a, b) ==
    IF a.FrameName = b.FrameName THEN StrLess(a.Name, b.Name)
    ELSE StrLess(a.FrameName, b.FrameName)

\* What Snapshot can return for the signals: the values of the map, each
\* once, in an order sort.Slice can leave them in (no element less than an
\* earlier one).  The map is iterated in an unspecified order, and every
\* order is covered.
SortedSignals(m) ==
    LET keys == DOMAIN m
        n == Cardinality(keys)
        orders == {o \in [1..n -> keys] : \A i, j \in 1..n : i # j => o[i] # o[j]}
    IN {[i \in 1..n |-> m[o[i]]] : o \in
            {q \in orders : \A i, j \in 1..n :
                i < j => ~SnapshotLess(m[q[j]], m[q[i]])}}

\* mu.Lock(), first half: the writer announces itself; RLock calls that
\* come later wait.
LockAnnounce(at, next) ==
    /\ pc = at
    /\ muPending' = TRUE
    /\ pc' = next
    /\ UNCHANGED <<muWriter, muReaders>>

\* mu.Lock(), second half: the lock is taken once the readers have left.
LockAcquire(at, next) ==
    /\ pc = at
    /\ muReaders = {}
    /\ muWriter' = TRUE
    /\ muPending' = FALSE
    /\ pc' = next
    /\ UNCHANGED muReaders

\* --------------------------------------------------------- RunCANReader

Stop(result) ==
    /\ pc' = "Stopped"
    /\ status' = "Stopped"
    /\ ret' = result
    /\ arg' = NoArg

\* conn, err := socketcan.DialContext(ctx, "can", iface)
Dial(e) ==
    /\ pc = "Dial"
    /\ connErr' = e
    /\ pc' = "DialCheck"
    /\ UNCHANGED <<loaderVars, serverVars, memVars, defs, storeVars, muVars, status, ret, frame, def, sigIdx, arg, recvErr,
                   delivered, clock, cancelled, readerVars, log, commits>>

\* err == nil: the receiver is made and the loop starts to stream.
DialOK ==
    /\ pc = "DialCheck"
    /\ connErr = "nil"
    /\ pc' = "Receive"
    /\ status' = "Streaming"
    /\ UNCHANGED <<loaderVars, serverVars, memVars, defs, storeVars, muVars, ret, frame, def, sigIdx, arg, connErr, recvErr,
                   delivered, clock, cancelled, readerVars, log, commits>>

\* A faulty error check: the dial error is ignored and the loop streams.
DialFailIgnored ==
    /\ pc = "DialCheck"
    /\ connErr # "nil"
    /\ pc' = "Receive"
    /\ status' = "Streaming"
    /\ UNCHANGED <<loaderVars, serverVars, memVars, defs, storeVars, muVars, ret, frame, def, sigIdx, arg, connErr, recvErr,
                   delivered, clock, cancelled, readerVars, log, commits>>

\* err != nil: return the wrapped error.
DialFail ==
    /\ pc = "DialCheck"
    /\ connErr # "nil"
    /\ Stop([kind |-> "socketcan dial", cause |-> connErr])
    /\ UNCHANGED <<loaderVars, serverVars, memVars, defs, storeVars, muVars, frame, def, sigIdx, connErr, recvErr, delivered,
                   clock, cancelled, readerVars, log, commits>>

\* recv.Receive() returns true: a frame arrived.
ReceiveFrame(f) ==
    /\ pc = "Receive"
    /\ delivered < MaxFrames
    /\ delivered' = delivered + 1
    /\ frame' = f
    /\ pc' = "Select"
    /\ log' = Append(log, [op |-> "recv", n |-> delivered + 1, val |-> [frame |-> f]])
    /\ UNCHANGED <<loaderVars, serverVars, memVars, defs, storeVars, muVars, status, ret, def, sigIdx, arg, connErr, recvErr,
                   clock, cancelled, readerVars, commits>>

\* recv.Receive() returns false: the source failed with e, or ended (e is
\* "nil"); the for loop is left.
ReceiveFalse(e) ==
    /\ pc = "Receive"
    /\ recvErr' = e
    /\ pc' = "ErrCheck"
    /\ UNCHANGED <<loaderVars, serverVars, memVars, defs, storeVars, muVars, status, ret, frame, def, sigIdx, arg, connErr,
                   delivered, clock, cancelled, readerVars, log, commits>>

\* A faulty return: the receiver's error is dropped and nil returned.
ReturnRecvErrorDropped ==
    /\ pc = "ErrCheck"
    /\ recvErr # "nil"
    /\ Stop(RetNil)
    /\ UNCHANGED <<loaderVars, serverVars, memVars, defs, storeVars, muVars, frame, def, sigIdx, connErr, recvErr, delivered,
                   clock, cancelled, readerVars, log, commits>>

\* recv.Err() is an error: return it wrapped.
ReturnRecvError ==
    /\ pc = "ErrCheck"
    /\ recvErr # "nil"
    /\ Stop([kind |-> "receiver error", cause |-> recvErr])
    /\ UNCHANGED <<loaderVars, serverVars, memVars, defs, storeVars, muVars, frame, def, sigIdx, connErr, recvErr, delivered,
                   clock, cancelled, readerVars, log, commits>>

\* recv.Err() is nil: return nil.
ReturnEnd ==
    /\ pc = "ErrCheck"
    /\ recvErr = "nil"
    /\ Stop(RetNil)
    /\ UNCHANGED <<loaderVars, serverVars, memVars, defs, storeVars, muVars, frame, def, sigIdx, connErr, recvErr, delivered,
                   clock, cancelled, readerVars, log, commits>>

\* A faulty select: cancellation is not looked at and the frame is processed.
SelectCancelIgnored ==
    /\ pc = "Select"
    /\ cancelled
    /\ arg' = [op |-> "PushRaw", val |-> MakeRawFrame(frame, clock)]
    /\ clock' = clock + 1
    /\ pc' = "PushRawLock"
    /\ log' = Append(log, [op |-> "pass", n |-> delivered, val |-> [frame |-> frame]])
    /\ UNCHANGED <<loaderVars, serverVars, memVars, defs, storeVars, muVars, status, ret, frame, def, sigIdx, connErr,
                   recvErr, delivered, cancelled, readerVars, commits>>

\* The select finds ctx.Done() closed: return nil.
SelectCancelled ==
    /\ pc = "Select"
    /\ cancelled
    /\ Stop(RetNil)
    /\ UNCHANGED <<loaderVars, serverVars, memVars, defs, storeVars, muVars, frame, def, sigIdx, connErr, recvErr, delivered,
                   clock, cancelled, readerVars, log, commits>>

\* A faulty loop body: a frame the schema lacks is not recorded raw.
SelectDefaultSkipsUnmapped ==
    /\ pc = "Select"
    /\ ~cancelled
    /\ IF frame.ID \in DOMAIN defs
       THEN /\ arg' = [op |-> "PushRaw", val |-> MakeRawFrame(frame, clock)]
            /\ clock' = clock + 1
            /\ pc' = "PushRawLock"
       ELSE /\ pc' = "Lookup"
            /\ UNCHANGED <<arg, clock>>
    /\ log' = Append(log, [op |-> "pass", n |-> delivered, val |-> [frame |-> frame]])
    /\ UNCHANGED <<loaderVars, serverVars, memVars, defs, storeVars, muVars, status, ret, frame, def, sigIdx, connErr,
                   recvErr, delivered, cancelled, readerVars, commits>>

\* The select takes its default branch; the RawFrame is built and PushRaw
\* is called.
SelectDefault ==
    /\ pc = "Select"
    /\ ~cancelled
    /\ arg' = [op |-> "PushRaw", val |-> MakeRawFrame(frame, clock)]
    /\ clock' = clock + 1
    /\ pc' = "PushRawLock"
    /\ log' = Append(log, [op |-> "pass", n |-> delivered, val |-> [frame |-> frame]])
    /\ UNCHANGED <<loaderVars, serverVars, memVars, defs, storeVars, muVars, status, ret, frame, def, sigIdx, connErr,
                   recvErr, delivered, cancelled, readerVars, commits>>

\* PushRaw: s.mu.Lock()
PushRawLock ==
    /\ \/ LockAnnounce("PushRawLock", "PushRawAcquire")
       \/ LockAcquire("PushRawAcquire", "PushRawAppend")
    /\ UNCHANGED <<loaderVars, serverVars, memVars, defs, storeVars, status, ret, frame, def, sigIdx, arg, connErr, recvErr,
                   delivered, clock, cancelled, readerVars, log, commits>>

\* PushRaw: s.rawFrames = append(s.rawFrames, r)
PushRawAppend ==
    /\ pc = "PushRawAppend"
    /\ rawFrames' = Append(rawFrames, arg.val)
    /\ pc' = "PushRawEvict"
    /\ UNCHANGED <<loaderVars, serverVars, memVars, defs, signals, rawCapacity, muVars, status, ret, frame, def, sigIdx, arg,
                   connErr, recvErr, delivered, clock, cancelled, readerVars, log, commits>>

\* PushRaw: the eviction, then the deferred s.mu.Unlock() and the return.
PushRawEvict ==
    /\ pc = "PushRawEvict"
    /\ rawFrames' = Evict(rawFrames, rawCapacity)
    /\ muWriter' = FALSE
    /\ pc' = "Lookup"
    /\ arg' = NoArg
    /\ log' = Append(log, [op |-> "push", n |-> delivered, val |-> arg.val])
    /\ commits' = commits \cup {[signals |-> signals, raw |-> rawFrames']}
    /\ UNCHANGED <<loaderVars, serverVars, memVars, defs, signals, rawCapacity, muPending, muReaders, status, ret, frame, def,
                   sigIdx, connErr, recvErr, delivered, clock, cancelled, readerVars>>

\* The call of UpsertSignal for the signal at position i of definition d:
\* the SignalValue is built (decode, time.Now()) and the call starts.
CallUpsert(d, i) ==
    /\ sigIdx' = i
    /\ arg' = [op |-> "UpsertSignal", val |-> MakeSignalValue(frame, d, d.Signals[i], clock)]
    /\ clock' = clock + 1
    /\ pc' = "UpsertLock"

\* The loop body is over: back to recv.Receive().
NextFrame ==
    /\ pc' = "Receive"
    /\ arg' = NoArg
    /\ UNCHANGED <<sigIdx, clock>>

\* def, ok := defs[frameID] finds the identifier: the range loop over
\* def.Signals starts.
LookupHit ==
    /\ pc = "Lookup"
    /\ frame.ID \in DOMAIN defs
    /\ def' = defs[frame.ID]
    /\ IF Len(defs[frame.ID].Signals) > 0 THEN CallUpsert(defs[frame.ID], 1) ELSE NextFrame
    /\ log' = Append(log, [op |-> "lookup", n |-> delivered, val |-> [ok |-> TRUE]])
    /\ UNCHANGED <<loaderVars, serverVars, memVars, defs, storeVars, muVars, status, ret, frame, connErr, recvErr, delivered,
                   cancelled, readerVars, commits>>

\* A faulty lookup: an identifier the schema lacks ends the loop with an
\* error.
LookupMissStops ==
    /\ pc = "Lookup"
    /\ frame.ID \notin DOMAIN defs
    /\ Stop([kind |-> "unknown frame", cause |-> "none"])
    /\ log' = Append(log, [op |-> "lookup", n |-> delivered, val |-> [ok |-> FALSE]])
    /\ UNCHANGED <<loaderVars, serverVars, memVars, defs, storeVars, muVars, frame, def, sigIdx, connErr, recvErr, delivered,
                   clock, cancelled, readerVars, commits>>

\* def, ok := defs[frameID] does not find the identifier: continue.
LookupMiss ==
    /\ pc = "Lookup"
    /\ frame.ID \notin DOMAIN defs
    /\ NextFrame
    /\ log' = Append(log, [op |-> "lookup", n |-> delivered, val |-> [ok |-> FALSE]])
    /\ UNCHANGED <<loaderVars, serverVars, memVars, defs, storeVars, muVars, status, ret, frame, def, connErr, recvErr,
                   delivered, cancelled, readerVars, commits>>

\* UpsertSignal: s.mu.Lock()
UpsertLock ==
    /\ \/ LockAnnounce("UpsertLock", "UpsertAcquire")
       \/ LockAcquire("UpsertAcquire", "UpsertWrite")
    /\ UNCHANGED <<loaderVars, serverVars, memVars, defs, storeVars, status, ret, frame, def, sigIdx, arg, connErr, recvErr,
                   delivered, clock, cancelled, readerVars, log, commits>>

\* UpsertSignal: the first half of s.signals[key] = v.
UpsertWrite ==
    /\ pc = "UpsertWrite"
    /\ signals' = MapPut(signals, SignalKey(arg.val), HalfWritten(signals, arg.val))
    /\ pc' = "UpsertUnlock"
    /\ UNCHANGED <<loaderVars, serverVars, memVars, defs, rawFrames, rawCapacity, muVars, status, ret, frame, def, sigIdx, arg,
                   connErr, recvErr, delivered, clock, cancelled, readerVars, log, commits>>

\* A faulty range loop: cancellation is polled after each upsert and the
\* loop returns in the middle of the frame.
UpsertUnlockPollsCancel ==
    /\ pc = "UpsertUnlock"
    /\ signals' = StoreSignal(signals, arg.val)
    /\ muWriter' = FALSE
    /\ IF cancelled
       THEN Stop(RetNil) /\ UNCHANGED <<sigIdx, clock>>
       ELSE /\ IF sigIdx < Len(def.Signals) THEN CallUpsert(def, sigIdx + 1) ELSE NextFrame
            /\ UNCHANGED <<status, ret>>
    /\ log' = Append(log, [op |-> "upsert", n |-> delivered, val |-> arg.val])
    /\ commits' = commits \cup {[signals |-> signals', raw |-> rawFrames]}
    /\ UNCHANGED <<loaderVars, serverVars, memVars, defs, rawFrames, rawCapacity, muPending, muReaders,
                   frame, def, connErr, recvErr, delivered, cancelled, readerVars>>

\* UpsertSignal: the assignment completes, then the deferred s.mu.Unlock()
\* and the return; the range loop goes on to the next signal or ends.
UpsertUnlock ==
    /\ pc = "UpsertUnlock"
    /\ signals' = StoreSignal(signals, arg.val)
    /\ muWriter' = FALSE
    /\ IF sigIdx < Len(def.Signals) THEN CallUpsert(def, sigIdx + 1) ELSE NextFrame
    /\ log' = Append(log, [op |-> "upsert", n |-> delivered, val |-> arg.val])
    /\ commits' = commits \cup {[signals |-> signals', raw |-> rawFrames]}
    /\ UNCHANGED <<loaderVars, serverVars, memVars, defs, rawFrames, rawCapacity, muPending, muReaders, status, ret, frame,
                   def, connErr, recvErr, delivered, cancelled, readerVars>>

\* The caller cancels the context.
Cancel ==
    /\ ~cancelled
    /\ cancelled' = TRUE
    /\ UNCHANGED <<loaderVars, serverVars, memVars, defs, storeVars, muVars, loopVars, readerVars, log, commits>>

\* --------------------------------------------------------------- Snapshot

\* A faulty Snapshot: the read lock is taken without waiting for the writer.
SnapshotRLockNoWait(r) ==
    /\ rpc[r] = "idle"
    /\ muReaders' = muReaders \cup {r}
    /\ rpc' = [rpc EXCEPT ![r] = "Locked"]
    /\ UNCHANGED <<loaderVars, serverVars, memVars, defs, storeVars, muWriter, muPending, loopVars, cancelled, snap, log,
                   commits>>

\* A faulty read lock: a writer that awaits the lock does not hold back new
\* readers.
SnapshotRLockIgnoresPending(r) ==
    /\ rpc[r] = "idle"
    /\ ~muWriter
    /\ muReaders' = muReaders \cup {r}
    /\ rpc' = [rpc EXCEPT ![r] = "Locked"]
    /\ UNCHANGED <<loaderVars, serverVars, memVars, defs, storeVars, muWriter, muPending, loopVars,
                   cancelled, snap, log, commits>>

\* Snapshot: s.mu.RLock(); it waits while a writer holds or awaits the lock.
SnapshotRLock(r) ==
    /\ rpc[r] = "idle"
    /\ ~muWriter
    /\ ~muPending
    /\ muReaders' = muReaders \cup {r}
    /\ rpc' = [rpc EXCEPT ![r] = "Locked"]
    /\ UNCHANGED <<loaderVars, serverVars, memVars, defs, storeVars, muWriter, muPending, loopVars, cancelled, snap, log,
                   commits>>

\* Snapshot: the values of the map are collected and sorted.
SnapshotSignals(r) ==
    /\ rpc[r] = "Locked"
    /\ \E sorted \in SortedSignals(signals) :
          snap' = [snap EXCEPT ![r] = [signals |-> sorted, raw |-> <<>>]]
    /\ rpc' = [rpc EXCEPT ![r] = "Sorted"]
    /\ UNCHANGED <<loaderVars, serverVars, memVars, defs, storeVars, muVars, loopVars, cancelled, log, commits>>

\* Snapshot: the raw frames are copied, then the deferred s.mu.RUnlock()
\* and the return.
SnapshotRaw(r) ==
    /\ rpc[r] = "Sorted"
    /\ snap' = [snap EXCEPT ![r].raw = rawFrames]
    /\ muReaders' = muReaders \ {r}
    /\ rpc' = [rpc EXCEPT ![r] = "Returned"]
    /\ UNCHANGED <<loaderVars, serverVars, memVars, defs, storeVars, muWriter, muPending, loopVars, cancelled, log, commits>>

\* The /api/state handler has encoded the snapshot and returns.
HandlerDone(r) ==
    /\ rpc[r] = "Returned"
    /\ rpc' = [rpc EXCEPT ![r] = "idle"]
    /\ snap' = [snap EXCEPT ![r] = NoSnap]
    /\ UNCHANGED <<loaderVars, serverVars, memVars, defs, storeVars, muVars, loopVars, cancelled, log, commits>>

\* ------------------------------------------------------------ specification

Next ==
    \/ \E e \in DialErrors \cup {"nil"} : Dial(e)
    \/ DialOK
    \/ DialFail
    \/ \E f \in FrameInputs : ReceiveFrame(f)
    \/ \E e \in RecvErrors \cup {"nil"} : ReceiveFalse(e)
    \/ ReturnRecvError
    \/ ReturnEnd
    \/ SelectCancelled
    \/ SelectDefault
    \/ PushRawLock
    \/ PushRawAppend
    \/ PushRawEvict
    \/ LookupHit
    \/ LookupMiss
    \/ UpsertLock
    \/ UpsertWrite
    \/ UpsertUnlock
    \/ Cancel
    \/ \E r \in Readers : SnapshotRLock(r)
    \/ \E r \in Readers : SnapshotSignals(r)
    \/ \E r \in Readers : SnapshotRaw(r)
    \/ \E r \in Readers : HandlerDone(r)

Spec == Init /\ [][Next]_vars

\* The ingestion loop and a handler started on the table of a schema whose
\* one signal has an endianness that is neither little nor big.
EndianInit == \E file \in EndianFiles : Started(file, {1}, Readers)

EndianSpec == EndianInit /\ [][Next]_vars

\* ------------------------------------------- one writer and two readers

\* The ingestion loop with two handlers that serve one request after the
\* other, on a source that delivers frames 0x100 and then ends.
ConcInit == Started(SchemaRecords, {1}, Handlers)

\* A step of the ingestion goroutine that does not wait for the frame
\* source: the loop body with its PushRaw and UpsertSignal calls.
WriterStep ==
    \/ SelectDefault
    \/ PushRawLock
    \/ PushRawAppend
    \/ PushRawEvict
    \/ LookupHit
    \/ UpsertLock
    \/ UpsertWrite
    \/ UpsertUnlock

ConcNext ==
    \/ Dial("nil")
    \/ DialOK
    \/ \E f \in MappedFrames : ReceiveFrame(f)
    \/ ReceiveFalse("nil")
    \/ ReturnEnd
    \/ WriterStep
    \/ \E r \in Handlers : SnapshotRLock(r)
    \/ \E r \in Handlers : SnapshotSignals(r)
    \/ \E r \in Handlers : SnapshotRaw(r)
    \/ \E r \in Handlers : HandlerDone(r)

\* The goroutines are scheduled fairly: a goroutine that can take a step
\* takes it.  A handler blocked in RLock is admitted when the writer
\* unlocks (sync.RWMutex wakes the waiting readers before the next writer),
\* which strong fairness of the RLock step states.  Nothing is assumed of
\* the frame source: the receive call may block for ever.
ConcSpec ==
    /\ ConcInit
    /\ [][ConcNext]_vars
    /\ WF_vars(WriterStep)
    /\ \A r \in Handlers :
          /\ SF_vars(SnapshotRLock(r))
          /\ WF_vars(SnapshotSignals(r))
          /\ WF_vars(SnapshotRaw(r))
          /\ WF_vars(HandlerDone(r))

\* ------------------------------------------------------- the schema loaders

\* Before anything has run: a schema file is there, no loader has been
\* called, and neither the store nor the ingestion loop is in use.
LoaderInit ==
    /\ build = "refactored"
    /\ NothingAllocated(Readers)
    /\ records \in SchemaFiles
    /\ loadPc = "start"
    /\ loaded = NoResult
    /\ legacy = NoResult
    /\ ServerNotStarted
    /\ defs = EmptyMap
    /\ signals = EmptyMap
    /\ rawFrames = <<>>
    /\ rawCapacity = 1
    /\ muWriter = FALSE
    /\ muPending = FALSE
    /\ muReaders = {}
    /\ pc = "Dial"
    /\ status = "Connecting"
    /\ ret = Running
    /\ frame = NoFrame
    /\ def = ZeroFrameDef
    /\ sigIdx = 0
    /\ arg = NoArg
    /\ connErr = "unset"
    /\ recvErr = "unset"
    /\ cancelled = FALSE
    /\ delivered = 0
    /\ clock = 1
    /\ rpc = [r \in Readers |-> "idle"]
    /\ snap = [r \in Readers |-> NoSnap]
    /\ log = <<>>
    /\ commits = {[signals |-> EmptyMap, raw |-> <<>>]}

\* LoadCANMap (refactored) is called on the file and returns.
LoadSchema ==
    /\ loadPc \in {"start", "legacy"}
    /\ loaded' \in ReadAndLoad(records)
    /\ loadPc' = IF loadPc = "start" THEN "new" ELSE "both"
    /\ UNCHANGED <<records, legacy, serverVars, memVars, ingestVars>>

\* LoadCANMap of main.go is called on the file and returns or panics.
LoadLegacy ==
    /\ loadPc \in {"start", "new"}
    /\ legacy' = LegacyLoadCANMap(records)
    /\ loadPc' = IF loadPc = "start" THEN "legacy" ELSE "both"
    /\ UNCHANGED <<records, loaded, serverVars, memVars, ingestVars>>

LoaderNext == LoadSchema \/ LoadLegacy

LoaderSpec == LoaderInit /\ [][LoaderNext]_vars

\* ------------------------------------------------- slices and their arrays

\* n cells of a backing array that no append has written yet.
Zeros(n) == [i \in 1..n |-> [zero |-> TRUE]]

\* The elements of slice s in memory h.
Contents(h, s) == IF s.len = 0 THEN <<>> ELSE SubSeq(h[s.arr], s.off + 1, s.off + s.len)

\* The arrays that the store or a snapshot in a handler's hands refers to.
RootsOf(raw, sigs, raws) ==
    ({raw.arr} \cup {sigs[r].arr : r \in DOMAIN sigs} \cup {raws[r].arr : r \in DOMAIN raws}) \ {0}

\* Where the next array is allocated: at an address nothing refers to. The
\* allocator is free in its choice: it takes the lowest free address of the
\* place it is given, or the lowest free address of all when that place is
\* taken.
NewArray(place) ==
    LET roots == RootsOf(rawSlice, snapSigs, snapRaw)
        free == IF place \ roots # {} THEN place \ roots ELSE Addrs \ roots
    IN CHOOSE a \in free : \A b \in free : a <= b

\* The place of the arrays of the store (owner "store"), and of the signals
\* and of the raw frames of a handler's snapshot.
PlaceOf(owner, kind) ==
    LET order == CHOOSE f \in [Handlers -> 1..Cardinality(Handlers)] :
                    \A r, q \in Handlers : f[r] = f[q] => r = q
    IN IF owner = "store" THEN {1, 2}
       ELSE IF kind = "signals" THEN {2 * order[owner] + 1}
       ELSE {2 * order[owner] + 2}

\* The memory once the arrays nothing refers to are collected.
Collect(h, roots) == [a \in Addrs |-> IF a \in roots THEN h[a] ELSE <<>>]

\* The capacities append may give the array it allocates for n elements:
\* the language leaves the growth to the runtime, which fits exactly or
\* doubles.
GrownCaps(n) == {n, 2 * n}

\* append(s, v): in place when the capacity allows, else into a new array
\* of capacity c at address a to which the elements are copied.
AppendSlice(h, s, v, a, c) ==
    IF s.len < s.cap
    THEN [heap |-> [h EXCEPT ![s.arr][s.off + s.len + 1] = v],
          slice |-> [s EXCEPT !.len = s.len + 1]]
    ELSE [heap |-> [h EXCEPT ![a] = Contents(h, s) \o <<v>> \o Zeros(c - s.len - 1)],
          slice |-> [arr |-> a, off |-> 0, len |-> s.len + 1, cap |-> c]]

\* A faulty copy: the slice itself is handed out.
AliasSlice(h, s, a, c) == [heap |-> h, slice |-> s]

\* A copy of slice s in a new array of capacity c at address a:
\* make([]RawFrame, len(s)) and copy, or append([]RawFrame(nil), s...).
CopySlice(h, s, a, c) ==
    [heap |-> [h EXCEPT ![a] = Contents(h, s) \o Zeros(c - s.len)],
     slice |-> [arr |-> a, off |-> 0, len |-> s.len, cap |-> c]]

\* PushRaw: s.rawFrames = append(s.rawFrames, r), with the memory followed.
PushRawAppendMem ==
    /\ pc = "PushRawAppend"
    /\ \E c \in GrownCaps(rawSlice.len + 1) :
          \E res \in {AppendSlice(heap, rawSlice, arg.val, NewArray(PlaceOf("store", "raw")), c)} :
             /\ rawSlice' = res.slice
             /\ heap' = Collect(res.heap, RootsOf(res.slice, snapSigs, snapRaw))
    /\ rawFrames' = Append(rawFrames, arg.val)
    /\ pc' = "PushRawEvict"
    /\ UNCHANGED <<loaderVars, serverVars, build, snapSigs, snapRaw, defs, signals, rawCapacity, muVars, status,
                   ret, frame, def, sigIdx, arg, connErr, recvErr, delivered, clock, cancelled, readerVars, log,
                   commits>>

\* PushRaw: the eviction s.rawFrames = s.rawFrames[len(s.rawFrames)-cap:],
\* which keeps the array, then the deferred s.mu.Unlock() and the return.
PushRawEvictMem ==
    /\ pc = "PushRawEvict"
    /\ rawFrames' = Evict(rawFrames, rawCapacity)
    /\ rawSlice' = IF rawSlice.len > rawCapacity
                   THEN [arr |-> rawSlice.arr,
                         off |-> rawSlice.off + rawSlice.len - rawCapacity,
                         len |-> rawCapacity,
                         cap |-> rawSlice.cap - (rawSlice.len - rawCapacity)]
                   ELSE rawSlice
    /\ muWriter' = FALSE
    /\ pc' = "Lookup"
    /\ arg' = NoArg
    /\ log' = Append(log, [op |-> "push", n |-> delivered, val |-> arg.val])
    /\ commits' = commits \cup {[signals |-> signals, raw |-> rawFrames']}
    /\ UNCHANGED <<loaderVars, serverVars, build, heap, snapSigs, snapRaw, defs, signals, rawCapacity, muPending,
                   muReaders, status, ret, frame, def, sigIdx, connErr, recvErr, delivered, clock, cancelled,
                   readerVars>>

\* Snapshot: make([]SignalValue, 0, len(s.signals)), the values of the map
\* appended to it and sorted in place.
SnapshotSignalsMem(r) ==
    /\ rpc[r] = "Locked"
    /\ \E sorted \in SortedSignals(signals) :
          /\ snap' = [snap EXCEPT ![r] = [signals |-> sorted, raw |-> <<>>]]
          /\ heap' = [heap EXCEPT ![NewArray(PlaceOf(r, "signals"))] = sorted]
          /\ snapSigs' = [snapSigs EXCEPT ![r] =
                            [arr |-> NewArray(PlaceOf(r, "signals")), off |-> 0, len |-> Len(sorted), cap |-> Len(sorted)]]
    /\ rpc' = [rpc EXCEPT ![r] = "Sorted"]
    /\ UNCHANGED <<loaderVars, serverVars, build, rawSlice, snapRaw, defs, storeVars, muVars, loopVars, cancelled,
                   log, commits>>

\* Snapshot returns, its raw slice being res.slice in memory res.heap: the
\* deferred s.mu.RUnlock() and the return.
SnapshotReturn(r, res) ==
    /\ snapRaw' = [snapRaw EXCEPT ![r] = res.slice]
    /\ heap' = res.heap
    /\ snap' = [snap EXCEPT ![r].raw = rawFrames]
    /\ muReaders' = muReaders \ {r}
    /\ rpc' = [rpc EXCEPT ![r] = "Returned"]
    /\ UNCHANGED <<loaderVars, serverVars, build, rawSlice, snapSigs, defs, storeVars, muWriter, muPending,
                   loopVars, cancelled, log, commits>>

\* Snapshot of part_001: raw = make([]RawFrame, len(s.rawFrames)) and
\* copy(raw, s.rawFrames).
SnapshotRawMem(r) ==
    /\ build = "refactored"
    /\ rpc[r] = "Sorted"
    /\ SnapshotReturn(r, CopySlice(heap, rawSlice, NewArray(PlaceOf(r, "raw")), rawSlice.len))

\* Snapshot of main.go: raw := append([]RawFrame(nil), s.rawFrames...),
\* which stays nil when there is nothing to append.
LegacySnapshotRawMem(r) ==
    /\ build = "legacy"
    /\ rpc[r] = "Sorted"
    /\ IF rawSlice.len = 0
       THEN SnapshotReturn(r, [heap |-> heap, slice |-> NilSlice])
       ELSE \E c \in GrownCaps(rawSlice.len) :
               SnapshotReturn(r, CopySlice(heap, rawSlice, NewArray(PlaceOf(r, "raw")), c))

\* The /api/state handler has encoded the snapshot and returns: nothing
\* refers to the two slices any more.
HandlerDoneMem(r) ==
    /\ rpc[r] = "Returned"
    /\ rpc' = [rpc EXCEPT ![r] = "idle"]
    /\ snap' = [snap EXCEPT ![r] = NoSnap]
    /\ snapSigs' = [snapSigs EXCEPT ![r] = NilSlice]
    /\ snapRaw' = [snapRaw EXCEPT ![r] = NilSlice]
    /\ heap' = Collect(heap, RootsOf(rawSlice, snapSigs', snapRaw'))
    /\ UNCHANGED <<loaderVars, serverVars, build, rawSlice, defs, storeVars, muVars, loopVars, cancelled, log,
                   commits>>

\* The ingestion loop on the Store of part_001 or on that of main.go, fed
\* with frames the schema maps, and two handlers, with the memory of the
\* slices followed.
CopyInit == StartedAs(SchemaRecords, {1}, Handlers, {"refactored", "legacy"})

CopyNext ==
    \/ Dial("nil")
    \/ DialOK
    \/ \E f \in MappedFrames : ReceiveFrame(f)
    \/ ReceiveFalse("nil")
    \/ ReturnEnd
    \/ SelectDefault
    \/ PushRawLock
    \/ PushRawAppendMem
    \/ PushRawEvictMem
    \/ LookupHit
    \/ UpsertLock
    \/ UpsertWrite
    \/ UpsertUnlock
    \/ \E r \in Handlers : SnapshotRLock(r)
    \/ \E r \in Handlers : SnapshotSignalsMem(r)
    \/ \E r \in Handlers : SnapshotRawMem(r)
    \/ \E r \in Handlers : LegacySnapshotRawMem(r)
    \/ \E r \in Handlers : HandlerDoneMem(r)

CopySpec == CopyInit /\ [][CopyNext]_vars

\* ---------------------------------------------------------- the web server

\* The grace period, in seconds, of the context handed to srv.Shutdown.
ShutdownTimeout == 3

\* What StartWebServer returns for the err of srv.ListenAndServe():
\* nil for http.ErrServerClosed, and the error itself otherwise.
ReturnValueNoCheck(err) == err
ReturnValue(err) == IF err = "ErrServerClosed" THEN "nil" ELSE err

\* StartWebServer is called: it builds the mux and the server, starts the
\* goroutine that awaits ctx.Done(), and calls srv.ListenAndServe().
StartWebServerCall ==
    /\ swPc = "NotStarted"
    /\ swPc' = "ListenAndServe"
    /\ sdPc' = "AwaitDone"
    /\ UNCHANGED <<swRet, srvErr, inShutdown, listening, conns, elapsed, loaderVars, memVars, ingestVars>>

\* ListenAndServe on a server that is already shutting down returns
\* http.ErrServerClosed without listening.
ListenAndServeClosed ==
    /\ swPc = "ListenAndServe"
    /\ inShutdown
    /\ srvErr' = "ErrServerClosed"
    /\ swPc' = "Return"
    /\ UNCHANGED <<swRet, sdPc, inShutdown, listening, conns, elapsed, loaderVars, memVars, ingestVars>>

\* ListenAndServe opens the listener on addr, or fails to and returns the
\* error of net.Listen.
Listen(ok) ==
    /\ swPc = "ListenAndServe"
    /\ ~inShutdown
    /\ IF ok
       THEN /\ listening' = TRUE
            /\ swPc' = "Serve"
            /\ UNCHANGED srvErr
       ELSE /\ srvErr' = "listen error"
            /\ swPc' = "Return"
            /\ UNCHANGED listening
    /\ UNCHANGED <<swRet, sdPc, inShutdown, conns, elapsed, loaderVars, memVars, ingestVars>>

\* Serve registers the listener with the server, unless Shutdown was called
\* since the listener was opened: then it closes the listener and returns
\* http.ErrServerClosed.
ServeTrack ==
    /\ swPc = "Serve"
    /\ IF inShutdown
       THEN /\ listening' = FALSE
            /\ srvErr' = "ErrServerClosed"
            /\ swPc' = "Return"
       ELSE /\ swPc' = "Serving"
            /\ UNCHANGED <<listening, srvErr>>
    /\ UNCHANGED <<swRet, sdPc, inShutdown, conns, elapsed, loaderVars, memVars, ingestVars>>

\* The accept loop of Serve accepts a connection, whose first request a
\* handler then serves.
Accept(c) ==
    /\ swPc = "Serving"
    /\ listening
    /\ conns[c] = "absent"
    /\ conns' = [conns EXCEPT ![c] = "active"]
    /\ UNCHANGED <<swPc, swRet, srvErr, sdPc, inShutdown, listening, elapsed, loaderVars, memVars, ingestVars>>

\* Accept fails on the listener Shutdown has closed: Serve returns
\* http.ErrServerClosed.
AcceptClosed ==
    /\ swPc = "Serving"
    /\ ~listening
    /\ srvErr' = "ErrServerClosed"
    /\ swPc' = "Return"
    /\ UNCHANGED <<swRet, sdPc, inShutdown, listening, conns, elapsed, loaderVars, memVars, ingestVars>>

\* Accept fails for a reason of its own on the open listener: Serve closes
\* the listener and returns the error, or http.ErrServerClosed when the
\* server is shutting down by then.
AcceptFails ==
    /\ swPc = "Serving"
    /\ listening
    /\ listening' = FALSE
    /\ srvErr' = IF inShutdown THEN "ErrServerClosed" ELSE "accept error"
    /\ swPc' = "Return"
    /\ UNCHANGED <<swRet, sdPc, inShutdown, conns, elapsed, loaderVars, memVars, ingestVars>>

\* StartWebServer returns what ListenAndServe returned, with
\* http.ErrServerClosed turned into nil.
StartWebServerReturn ==
    /\ swPc = "Return"
    /\ swRet' = ReturnValue(srvErr)
    /\ swPc' = "Returned"
    /\ UNCHANGED <<srvErr, sdPc, inShutdown, listening, conns, elapsed, loaderVars, memVars, ingestVars>>

\* A handler finishes its request: the connection is kept alive for the
\* next request, or closed when the server is shutting down.
RequestDone(c) ==
    /\ conns[c] = "active"
    /\ conns' = [conns EXCEPT ![c] = IF inShutdown THEN "absent" ELSE "idle"]
    /\ UNCHANGED <<swPc, swRet, srvErr, sdPc, inShutdown, listening, elapsed, loaderVars, memVars, ingestVars>>

\* The next request arrives on a connection that was kept alive.
RequestNext(c) ==
    /\ conns[c] = "idle"
    /\ conns' = [conns EXCEPT ![c] = "active"]
    /\ UNCHANGED <<swPc, swRet, srvErr, sdPc, inShutdown, listening, elapsed, loaderVars, memVars, ingestVars>>

\* The goroutine started by StartWebServer finds ctx.Done() closed, makes
\* the context with the timeout and calls srv.Shutdown, which first marks
\* the server as shutting down.
ShutdownBegin ==
    /\ sdPc = "AwaitDone"
    /\ cancelled
    /\ inShutdown' = TRUE
    /\ elapsed' = 0
    /\ sdPc' = "CloseListeners"
    /\ UNCHANGED <<swPc, swRet, srvErr, listening, conns, loaderVars, memVars, ingestVars>>

\* Shutdown closes the listeners that Serve registered.
ShutdownCloseListeners ==
    /\ sdPc = "CloseListeners"
    /\ listening' = IF swPc = "Serving" THEN FALSE ELSE listening
    /\ sdPc' = "Polling"
    /\ UNCHANGED <<swPc, swRet, srvErr, inShutdown, conns, elapsed, loaderVars, memVars, ingestVars>>

\* Shutdown polls: it closes the idle connections, and returns nil when no
\* connection is left. (A poll that finds only requests in flight changes
\* nothing.)
ShutdownPoll ==
    /\ sdPc = "Polling"
    /\ \/ \E c \in Conns : conns[c] = "idle"
       \/ \A c \in Conns : conns[c] = "absent"
    /\ conns' = [c \in Conns |-> IF conns[c] = "idle" THEN "absent" ELSE conns[c]]
    /\ sdPc' = IF \A c \in Conns : conns'[c] = "absent" THEN "Done" ELSE "Polling"
    /\ UNCHANGED <<swPc, swRet, srvErr, inShutdown, listening, elapsed, loaderVars, memVars, ingestVars>>

\* The context of Shutdown expires: Shutdown returns its error, which the
\* goroutine discards, and leaves the requests in flight as they are.
ShutdownTimesOut ==
    /\ sdPc = "Polling"
    /\ elapsed = ShutdownTimeout
    /\ sdPc' = "Done"
    /\ UNCHANGED <<swPc, swRet, srvErr, inShutdown, listening, conns, elapsed, loaderVars, memVars, ingestVars>>

\* A second passes while Shutdown is under way; the context expires at
\* ShutdownTimeout.
Tick ==
    /\ sdPc \in {"CloseListeners", "Polling"}
    /\ elapsed < ShutdownTimeout
    /\ elapsed' = elapsed + 1
    /\ UNCHANGED <<swPc, swRet, srvErr, sdPc, inShutdown, listening, conns, loaderVars, memVars, ingestVars>>

\* The steps of the goroutine that calls StartWebServer, and of the one that
\* shuts the server down.
ServeStep ==
    \/ ListenAndServeClosed
    \/ ServeTrack
    \/ AcceptClosed
    \/ StartWebServerReturn
ShutdownStep ==
    \/ ShutdownBegin
    \/ ShutdownCloseListeners
    \/ ShutdownPoll
    \/ ShutdownTimesOut

\* The web server on its own: the ingestion loop has not started.
WebInit == Started(SchemaRecords, {1}, Readers)

WebNext ==
    \/ StartWebServerCall
    \/ \E ok \in BOOLEAN : Listen(ok)
    \/ ServeStep
    \/ \E c \in Conns : Accept(c)
    \/ AcceptFails
    \/ \E c \in Conns : RequestDone(c)
    \/ \E c \in Conns : RequestNext(c)
    \/ ShutdownStep
    \/ Tick
    \/ Cancel

\* Both goroutines of the server keep running and time passes; nothing is
\* assumed of the clients, of the handlers or of the caller's cancellation.
WebSpec ==
    /\ WebInit
    /\ [][WebNext]_vars
    /\ WF_vars(ServeStep)
    /\ WF_vars(ShutdownStep)
    /\ WF_vars(Tick)

\* ============================================================ properties

\* The values of the log entries of one kind, oldest first.
RECURSIVE LogValues(_, _)
LogValues(l, op) ==
    IF l = <<>> THEN <<>>
    ELSE (IF Head(l).op = op THEN <<Head(l).val>> ELSE <<>>) \o LogValues(Tail(l), op)

\* The records of the completed PushRaw calls, and the values of the
\* completed UpsertSignal calls, in call order.
Pushed == LogValues(log, "push")
Upserted == LogValues(log, "upsert")

Min(a, b) == IF a < b THEN a ELSE b

\* The last n elements of q.
LastN(q, n) == SubSeq(q, Len(q) - n + 1, Len(q))

\* q is a run of consecutive elements of p.
IsSegment(q, p) ==
    \E i \in 1..(Len(p) + 1) : i + Len(q) - 1 <= Len(p) /\ q = SubSeq(p, i, i + Len(q) - 1)

\* The key of a signal value as the specification states it:
\* frameName + "." + signalName.
KeyOf(v) == v.FrameName \o <<46>> \o v.Name

\* The map a sequence of upserts must leave: one entry per key, holding the
\* value of the last upsert of that key.
LastWrites(ups) ==
    [k \in {KeyOf(ups[i]) : i \in 1..Len(ups)} |->
        ups[CHOOSE i \in 1..Len(ups) :
                /\ KeyOf(ups[i]) = k
                /\ \A j \in 1..Len(ups) : KeyOf(ups[j]) = k => j <= i]]

\* ---------------------------------------------------------------------- C1
\* C1: the raw FIFO holds exactly the min(n, N) most recently pushed records
\* in insertion order, N being the capacity and n the number of completed
\* pushes; whenever the write lock is free (the states a snapshot can see)
\* its length is at most N; and no step changes N.
C1_RawFifoWindow ==
    [][/\ rawCapacity' = rawCapacity
       /\ ~muWriter' =>
            /\ Len(rawFrames') <= rawCapacity'
            /\ \A pushed \in {Pushed'} :
                  rawFrames' = LastN(pushed, Min(Len(pushed), rawCapacity'))]_vars

\* Three pushes into a store of capacity 2: the oldest record is gone.
C1_Witness ==
    /\ ~muWriter
    /\ rawCapacity = 2
    /\ \E pushed \in {Pushed} : Len(pushed) = 3 /\ rawFrames = <<pushed[2], pushed[3]>>

\* ---------------------------------------------------------------------- C2
\* C2: whenever the write lock is free the signal map holds exactly one
\* entry per key frameName.signalName ever upserted, and it is the value of
\* the last upsert of that key; and a step of UpsertSignal adds at most the
\* entry of its own key, leaves every other entry alone and leaves the raw
\* FIFO alone.
C2_UpsertLastWriteWins ==
    [][/\ ~muWriter' => \A ups \in {Upserted'} : signals' = LastWrites(ups)
       /\ pc \in {"UpsertWrite", "UpsertUnlock"} =>
            /\ rawFrames' = rawFrames
            /\ DOMAIN signals' \subseteq (DOMAIN signals) \cup {KeyOf(arg.val)}
            /\ \A k \in DOMAIN signals :
                  k # KeyOf(arg.val) => k \in DOMAIN signals' /\ signals'[k] = signals[k]]_vars

\* A key was upserted twice with different values and the map holds the
\* second of them, once.
C2_Witness ==
    /\ ~muWriter
    /\ \E ups \in {Upserted} : \E i, j \in 1..Len(ups) :
          /\ i < j
          /\ KeyOf(ups[i]) = KeyOf(ups[j])
          /\ ups[i].Value # ups[j].Value
          /\ \A k \in (j + 1)..Len(ups) : KeyOf(ups[k]) # KeyOf(ups[j])
          /\ signals[KeyOf(ups[j])] = ups[j]
    /\ Cardinality(DOMAIN signals) >= 2

\* ---------------------------------------------------------------------- C3
\* C3: whatever a Snapshot call has built, and what it returns, is the
\* content of the store at one instant between completed UpsertSignal and
\* PushRaw calls: the signals are those of that instant (none half written)
\* and the raw frames are those of the same instant (never longer than the
\* capacity).
C3_SnapshotIsOneInstant ==
    \A r \in Readers :
        /\ rpc[r] = "Sorted" => \E c \in commits : snap[r].signals \in SortedSignals(c.signals)
        /\ rpc[r] = "Returned" =>
              /\ Len(snap[r].raw) <= rawCapacity
              /\ \E c \in commits :
                    /\ snap[r].signals \in SortedSignals(c.signals)
                    /\ snap[r].raw = c.raw

\* A snapshot with signals and raw frames was returned while the ingestion
\* goroutine is in the middle of a store operation.
C3_Witness ==
    \E r \in Readers :
        /\ rpc[r] = "Returned"
        /\ snap[r].signals # <<>>
        /\ snap[r].raw # <<>>
        /\ status = "Streaming"
        /\ muWriter
        /\ pc \in {"PushRawEvict", "UpsertUnlock"}

\* ---------------------------------------------------------------------- C4
\* C4: the signals of a snapshot are the stored values, each exactly once,
\* strictly ascending by frame name and, for equal frame names, by signal
\* name (both lexicographic); the raw frames of a returned snapshot are in
\* insertion order, oldest first.
Ascending(sigs) ==
    \A i, j \in 1..Len(sigs) :
        i < j =>
            \/ StrLess(sigs[i].FrameName, sigs[j].FrameName)
            \/ sigs[i].FrameName = sigs[j].FrameName /\ StrLess(sigs[i].Name, sigs[j].Name)

\* sigs lists the values of map m, each once.
ListsOnce(sigs, m) ==
    /\ Len(sigs) = Cardinality(DOMAIN m)
    /\ \A k \in DOMAIN m : \E i \in 1..Len(sigs) : sigs[i] = m[k]

C4_SnapshotOrder ==
    \A r \in Readers :
        /\ rpc[r] = "Sorted" => Ascending(snap[r].signals) /\ ListsOnce(snap[r].signals, signals)
        /\ rpc[r] = "Returned" =>
              /\ Ascending(snap[r].signals)
              /\ \E c \in commits : ListsOnce(snap[r].signals, c.signals)
              /\ \E pushed \in {Pushed} : IsSegment(snap[r].raw, pushed)

\* A returned snapshot with three signals, two of one frame, and two raw
\* frames.
C4_Witness ==
    \E r \in Readers :
        /\ rpc[r] = "Returned"
        /\ Len(snap[r].signals) = 3
        /\ snap[r].signals[2].FrameName = snap[r].signals[3].FrameName
        /\ snap[r].signals[1].FrameName # snap[r].signals[2].FrameName
        /\ Len(snap[r].raw) = 2

\* ------------------------------------------------- per-frame log helpers

\* The number of entries of kind op the log holds for frame number n.
CountOf(l, op, n) == Cardinality({i \in 1..Len(l) : l[i].op = op /\ l[i].n = n})

\* The values of the entries of kind op the log holds for frame number n.
RECURSIVE ValuesOf(_, _, _)
ValuesOf(l, op, n) ==
    IF l = <<>> THEN <<>>
    ELSE (IF Head(l).op = op /\ Head(l).n = n THEN <<Head(l).val>> ELSE <<>>)
            \o ValuesOf(Tail(l), op, n)

\* The frame the source delivered as number n.
FrameOf(l, n) == l[CHOOSE i \in 1..Len(l) : l[i].op = "recv" /\ l[i].n = n].val.frame

\* The identifiers of the frame inputs as the text "0x%03X" renders them.
IDText ==
    [id \in {256, 512, 768} |->
        IF id = 256 THEN <<48, 120, 49, 48, 48>>
        ELSE IF id = 512 THEN <<48, 120, 50, 48, 48>>
        ELSE <<48, 120, 51, 48, 48>>]

\* The ingestion goroutine is inside the PushRaw call of the current frame.
InPushRaw == pc \in {"PushRawLock", "PushRawAcquire", "PushRawAppend", "PushRawEvict"}

\* The loop body of the current frame is over (or the loop is).
BodyDone == pc \in {"Receive", "ErrCheck", "Stopped"}

\* ---------------------------------------------------------------------- C5
\* C5 as stated: once the loop body is over, every frame the source
\* delivered has exactly one raw record pushed.
C5_EveryDeliveredFramePushed ==
    BodyDone => \A l \in {log} : \A n \in 1..delivered : CountOf(l, "push", n) = 1

\* C5, amended: every delivered frame that passed the cancellation check
\* has exactly one raw record pushed, made from that frame, whether or not
\* the schema has its identifier; a frame that did not pass has none; and
\* the push of a frame is complete before its schema lookup and before
\* each of its signal upserts.
C5_PassedFramePushedFirst ==
    \A l \in {log} :
        /\ \A n \in 1..delivered :
              LET passed == CountOf(l, "pass", n) = 1
                  pushes == ValuesOf(l, "push", n)
              IN /\ Len(pushes) <= 1
                 /\ Len(pushes) = 1 => passed
                 /\ passed /\ (n < delivered \/ ~InPushRaw) => Len(pushes) = 1
                 /\ \A i \in 1..Len(pushes) :
                       /\ pushes[i].ID = IDText[FrameOf(l, n).ID]
                       /\ pushes[i].DLC = FrameOf(l, n).Length
        /\ \A i \in 1..Len(l) :
              l[i].op \in {"lookup", "upsert"} =>
                  \E j \in 1..(i - 1) : l[j].op = "push" /\ l[j].n = l[i].n

\* A frame the schema lacks and a frame the schema has were both received
\* and fully processed.
C5_Witness ==
    /\ pc = "Receive"
    /\ \E l \in {log} : \E n, m \in 1..delivered :
          /\ FrameOf(l, n).ID \notin DOMAIN defs
          /\ CountOf(l, "push", n) = 1
          /\ CountOf(l, "lookup", n) = 1
          /\ FrameOf(l, m).ID \in DOMAIN defs
          /\ CountOf(l, "push", m) = 1
          /\ CountOf(l, "upsert", m) = 2

C8_DialFailureStopsUntouched ==
    connErr \notin {"unset", "nil"} =>
        /\ status \in {"Connecting", "Stopped"}
        /\ pc \in {"DialCheck", "Stopped"}
        /\ pc = "Stopped" => ret = [kind |-> "socketcan dial", cause |-> connErr]
        /\ delivered = 0
        /\ log = <<>>
        /\ signals = EmptyMap
        /\ rawFrames = <<>>
        /\ ~muWriter /\ ~muPending

\* The dial failed and RunCANReader returned the wrapped error.
C8_Witness ==
    /\ pc = "Stopped"
    /\ status = "Stopped"
    /\ connErr = "ENODEV"
    /\ ret = [kind |-> "socketcan dial", cause |-> "ENODEV"]

\* ---------------------------------------------------------------------- C9
\* C9: a cancellation check that runs with cancellation requested stops the
\* loop with a nil return and without touching the store; the frame just
\* received has no raw record and no upsert; and once the loop is Stopped
\* nothing is received, pushed or upserted any more.
C9_CancelStopsWithoutError ==
    [][/\ pc = "Select" /\ cancelled /\ pc' # pc =>
            /\ pc' = "Stopped"
            /\ status' = "Stopped"
            /\ ret' = RetNil
            /\ signals' = signals /\ rawFrames' = rawFrames
            /\ \A l \in {log'} :
                  /\ l = log
                  /\ CountOf(l, "push", delivered) = 0
                  /\ CountOf(l, "upsert", delivered) = 0
       /\ status = "Stopped" =>
            /\ status' = "Stopped" /\ pc' = "Stopped" /\ ret' = ret
            /\ delivered' = delivered /\ log' = log
            /\ signals' = signals /\ rawFrames' = rawFrames]_vars

\* The loop processed one frame, received a second one after cancellation
\* was requested, and stopped with nil, leaving the second unrecorded.
C9_Witness ==
    /\ pc = "Stopped"
    /\ cancelled
    /\ ret = RetNil
    /\ recvErr = "unset"
    /\ delivered = 2
    /\ \E l \in {log} : CountOf(l, "push", 1) = 1 /\ CountOf(l, "push", 2) = 0
    /\ Len(rawFrames) = 1

\* --------------------------------------------------------------------- C10
\* C10: when the receive call has returned false the loop stops at once:
\* with the source's error wrapped in the returned error if there is one,
\* with a nil return if the source just ended.  From then on the source is
\* neither dialled nor read again and the store keeps what was committed.
C10_SourceErrorStopsAndSurfaces ==
    [][/\ pc = "ErrCheck" /\ pc' # pc =>
            /\ pc' = "Stopped"
            /\ status' = "Stopped"
            /\ ret' = IF recvErr = "nil" THEN RetNil
                      ELSE [kind |-> "receiver error", cause |-> recvErr]
       /\ recvErr' # "unset" =>
            /\ pc' \in {"ErrCheck", "Stopped"}
            /\ connErr' = connErr
            /\ delivered' = delivered
            /\ signals' = signals /\ rawFrames' = rawFrames]_vars

\* After two frames were committed the source failed with EIO and
\* RunCANReader returned that error; the store still holds the frames.
C10_Witness ==
    /\ pc = "Stopped"
    /\ ret = [kind |-> "receiver error", cause |-> "EIO"]
    /\ delivered = 2
    /\ Len(Pushed) = 2
    /\ signals # EmptyMap
    /\ rawFrames # <<>>

\* ------------------------------------------------- schema file helpers

\* The refactored loader has returned.
LoadReturned == loadPc \in {"new", "both"}

\* The loader returned an error and no frame table.
LoadFailed == loaded.err # "nil" /\ loaded.isNil /\ loaded.frames = EmptyMap

\* The header has no column of that name (white space around a name is not
\* part of it).
HeaderLacks(header, name) == \A i \in 1..Len(header) : TrimSpace(header[i]) # name

\* The header lacks at least one of the 13 required columns.
HeaderIncomplete(header) ==
    \E k \in 1..Len(RequiredColumns) : HeaderLacks(header, RequiredColumns[k])

\* The cell of a data row under the column of that name.
CellOf(file, i, name) == GetCell(HeaderIndex(file[1]), file[i], name)

\* Data row i of the file has an unparsable frame_id, start_bit, bit_length,
\* factor or offset.
UnparsableRow(file, i) ==
    \/ parseHexID(CellOf(file, i, ColFrameID)).err
    \/ ParseUint(CellOf(file, i, ColStartBit), 10, 256).err
    \/ ParseUint(CellOf(file, i, ColBitLength), 10, 256).err
    \/ ParseFloat(CellOf(file, i, ColFactor)).err
    \/ ParseFloat(CellOf(file, i, ColOffset)).err

\* --------------------------------------------------------------------- C11
\* C11: when the header row lacks one of the 13 required columns, the
\* loader returns an error and no frame table, whatever the data rows are.
C11_MissingColumnFails ==
    LoadReturned /\ Len(records) >= 1 /\ HeaderIncomplete(records[1]) => LoadFailed

\* The header lacks the comment column, the two data rows are well formed
\* in every other column, and the loader returned the missing-column error.
C11_Witness ==
    /\ loadPc = "new"
    /\ Len(records) = 3
    /\ HeaderLacks(records[1], ColComment)
    /\ \A k \in 1..12 : ~HeaderLacks(records[1], RequiredColumns[k])
    /\ ~FieldCountError(records)
    /\ \A i \in 2..3 : ~UnparsableRow(records, i)
    /\ loaded.err = "missing required column"
    /\ LoadFailed

\* --------------------------------------------------------------------- C12
\* C12: when the header is complete and some data row has an unparsable
\* frame_id, start_bit, bit_length, factor or offset, the loader returns an
\* error and no frame table: neither the frames of the rows before the bad
\* one, nor a table in which the bad row is left out or filled with
\* defaults.  When every record has as many fields as the header, the
\* error is the one of a row's field.
C12_BadRowFails ==
    /\ LoadReturned
    /\ Len(records) >= 2
    /\ ~HeaderIncomplete(records[1])
    /\ \E i \in 2..Len(records) : UnparsableRow(records, i)
    => /\ LoadFailed
       /\ ~FieldCountError(records) =>
             loaded.err \in {"bad frame_id", "bad start_bit", "bad bit_length", "bad factor",
                             "bad offset"}

\* A well-formed row is followed by a row with an unparsable factor, and
\* the loader returned that row's error and no table.
C12_Witness ==
    /\ loadPc = "new"
    /\ Len(records) = 3
    /\ ~HeaderIncomplete(records[1])
    /\ ~UnparsableRow(records, 2)
    /\ ParseFloat(CellOf(records, 3, ColFactor)).err
    /\ loaded.err = "bad factor"
    /\ LoadFailed

\* --------------------------------------------------------------------- C13
\* The frame identifier of data row i.
RowID(file, i) == parseHexID(CellOf(file, i, ColFrameID)).val

\* The data rows of the file that carry the identifier id.
RowsOf(file, id) == {j \in 2..Len(file) : RowID(file, j) = id}

\* C13: in a table the loader returned, every frame identifier of a data
\* row has a FrameDefinition; it holds one SignalDefinition per row with
\* that identifier, each row's signal name among them, and its name is the
\* frame_name of the first row with that identifier.
C13_FrameCollectsItsRows ==
    LoadReturned /\ loaded.err = "nil" =>
        \A i \in 2..Len(records) :
            LET id == RowID(records, i)
                rows == RowsOf(records, id)
                first == CHOOSE j \in rows : \A k \in rows : j <= k
            IN /\ id \in DOMAIN loaded.frames
               /\ Len(loaded.frames[id].Signals) = Cardinality(rows)
               /\ \E k \in 1..Len(loaded.frames[id].Signals) :
                     loaded.frames[id].Signals[k].SignalName = CellOf(records, i, ColSignalName)
               /\ loaded.frames[id].Name = CellOf(records, first, ColFrameName)

\* --------------------------------------------------------------------- C14
\* C14: every SignalDefinition of a table the loader returned has a start
\* bit of 0..63, a bit length of 1..64, and start bit + bit length <= 64.
C14_SignalsFitPayload ==
    LoadReturned /\ loaded.err = "nil" =>
        \A id \in DOMAIN loaded.frames :
            \A k \in 1..Len(loaded.frames[id].Signals) :
                LET sig == loaded.frames[id].Signals[k]
                IN /\ sig.StartBit >= 0 /\ sig.StartBit <= 63
                   /\ sig.BitLength >= 1 /\ sig.BitLength <= 64
                   /\ sig.StartBit + sig.BitLength <= 64

\* --------------------------------------------------------------------- C18
\* C18: on the same schema file the refactored loader and the loader of
\* main.go return the same: an error in the same cases, and the same frame
\* table (identifiers, frame names, signals in the same order with the
\* same field values).
C18_LoadersAgree ==
    loadPc = "both" =>
        /\ (loaded.err = "nil") = (legacy.err = "nil")
        /\ loaded.frames = legacy.frames

\* --------------------------------------------------------------------- C17
\* The signal definition named by an upserted value.
DefinitionOf(v) ==
    LET sigs == UNION {{defs[id].Signals[k] : k \in 1..Len(defs[id].Signals)} :
                          id \in DOMAIN defs}
    IN CHOOSE sig \in sigs : sig.SignalName = v.Name

\* C17 as stated: every value upserted for a signal whose endianness is
\* neither little nor big is zero.
C17_UnknownEndiannessStoresZero ==
    \A ups \in {Upserted} : \A i \in 1..Len(ups) :
        DefinitionOf(ups[i]).Endianness \notin {EndianLittle, EndianBig} =>
            ups[i].Value = Num(0)

\* C17, amended: the loader accepts each of these rows without error (looked
\* at before the loop dials); every value upserted for such a signal
\* is 0 * factor + offset whatever the payload: the row's offset when factor
\* and offset are finite, zero otherwise; and that is the value in the store.
C17_UnknownEndiannessStoresOffset ==
    /\ pc = "Dial" => \A file \in EndianFiles : \A x \in ReadAndLoad(file) : x.err = "nil"
    /\ \A ups \in {Upserted} : \A i \in 1..Len(ups) :
          LET sig == DefinitionOf(ups[i])
          IN sig.Endianness \notin {EndianLittle, EndianBig} =>
                /\ ups[i].Value = IF sig.Factor.k = "num" /\ sig.Offset.k = "num"
                                  THEN sig.Offset
                                  ELSE Num(0)
                /\ ~muWriter => signals[KeyOf(ups[i])].Value = ups[i].Value

\* A frame 0x100 with a payload that is not zero was decoded for a signal
\* of endianness "middle", factor 2 and offset 5, and the store holds 5.
C17_Witness ==
    /\ pc = "Receive"
    /\ frame.ID = 256
    /\ frame.Data[1] # 0
    /\ \E k \in DOMAIN signals :
          /\ DefinitionOf(signals[k]).Endianness = <<109, 105, 100, 100, 108, 101>>
          /\ DefinitionOf(signals[k]).Factor = Num(2)
          /\ signals[k].Value = Num(5)

\* --------------------------------------------------------------------- C15
\* The number of the most recent frame with identifier id that the loop has
\* taken in (it passed the cancellation check), 0 when there is none.
LastFrameWith(l, id) ==
    LET ns == {n \in 1..delivered : CountOf(l, "pass", n) = 1 /\ FrameOf(l, n).ID = id}
    IN IF ns = {} THEN 0 ELSE CHOOSE n \in ns : \A m \in ns : m <= n

\* The store has an entry for signal sig of frame id that holds the value
\* decoded from payload d.
HasEntry(id, sig, d) ==
    \E k \in DOMAIN signals :
        /\ signals[k].FrameID = IDText[id]
        /\ signals[k].Name = sig.SignalName
        /\ signals[k].Value = clampFinite(decodeSignal(d, sig))

\* C15: once the loop body is over, every (frame identifier, signal) pair of
\* the schema whose frame the loop has taken in at least once has its own
\* entry in the store (which is what a snapshot then returns), holding the
\* value decoded from the most recent such frame.
C15_EntryPerFrameSignalPair ==
    BodyDone =>
        \A l \in {log} : \A id \in DOMAIN defs :
            LastFrameWith(l, id) # 0 =>
                \A k \in 1..Len(defs[id].Signals) :
                    HasEntry(id, defs[id].Signals[k], FrameOf(l, LastFrameWith(l, id)).Data)

\* --------------------------------------------------------------------- C19
\* The frames the loop has taken in: they passed the cancellation check.
Passed(l) == {n \in 1..delivered : CountOf(l, "pass", n) = 1}

\* C19: the cancellation check is reached once per received frame, right
\* after the receive call, and from nowhere else; the loop never stops in
\* the middle of a frame.  Once cancellation is requested no further frame
\* passes the check, so the only frame that still changes the store is the
\* last one that had passed it; that frame's upserts are all made; and the
\* next return of the receive call stops the loop.
C19_CancelPolledOncePerFrame ==
    [][/\ pc' = "Select" /\ pc # "Select" => pc = "Receive" /\ delivered' = delivered + 1
       /\ pc = "Select" /\ pc' # pc => pc' \in {"Stopped", "PushRawLock"}
       /\ pc' = "Stopped" /\ pc # "Stopped" => pc \in {"DialCheck", "Select", "ErrCheck"}
       /\ cancelled =>
            \A l \in {log} :
                /\ \A m \in {log'} : Passed(l) = {n \in Passed(l) : CountOf(m, "pass", n) = 1}
                                       /\ CountOf(m, "pass", delivered') = CountOf(l, "pass", delivered')
                /\ signals' # signals \/ rawFrames' # rawFrames =>
                      /\ delivered \in Passed(l)
                      /\ \A n \in Passed(l) : n <= delivered
                /\ pc # "Receive" /\ pc' = "Receive" /\ frame.ID \in DOMAIN defs =>
                      Len(ValuesOf(log', "upsert", delivered)) = Len(defs[frame.ID].Signals)
                /\ pc = "Receive" /\ pc' # pc => pc' \in {"Select", "ErrCheck"}
                /\ pc \in {"Select", "ErrCheck"} /\ pc' # pc => pc' = "Stopped"]_vars

\* Cancellation is requested and the loop is in the middle of the second
\* frame, which had passed the check: its first upsert is made and its
\* second one is being written.
C19_Witness ==
    /\ cancelled
    /\ status = "Streaming"
    /\ pc = "UpsertUnlock"
    /\ sigIdx = 2
    /\ delivered = 2
    /\ \E l \in {log} :
          /\ Passed(l) = {1, 2}
          /\ CountOf(l, "upsert", 2) = 1

\* --------------------------------------------------------------------- C16
\* Readers do not exclude one another: a handler that calls Snapshot while
\* no writer holds or awaits the lock gets the read lock, whoever else
\* holds it.
ReadersShare ==
    \A r \in Handlers :
        rpc[r] = "idle" /\ ~muWriter /\ ~muPending => ENABLED SnapshotRLock(r)

\* The writer holds the lock only inside one PushRaw or one UpsertSignal,
\* and awaits it only there: not at the receive call, the cancellation
\* check or the schema lookup, and not between two calls.
WriterLocksPerCall ==
    /\ muWriter => pc \in {"PushRawAppend", "PushRawEvict", "UpsertWrite", "UpsertUnlock"}
    /\ muPending => pc \in {"PushRawAcquire", "UpsertAcquire"}
    /\ muWriter => muReaders = {}

\* The ingestion goroutine is inside a PushRaw call, or inside the
\* UpsertSignal call for the signal at position i of the frame definition.
InUpsert(i) ==
    pc \in {"UpsertLock", "UpsertAcquire", "UpsertWrite", "UpsertUnlock"} /\ sigIdx = i

\* The largest number of signals a frame of the schema has.
MostSignals ==
    LET t == (CHOOSE x \in LoadCANMap(SchemaRecords) : x.err = "nil").frames
    IN CHOOSE n \in 0..Len(SchemaRecords) :
          /\ \A id \in DOMAIN t : Len(t[id].Signals) <= n
          /\ \E id \in DOMAIN t : Len(t[id].Signals) = n

\* C16: readers share the lock; the writer holds it for one store call at
\* a time; and with fair scheduling every Snapshot call returns, every
\* PushRaw call returns and every UpsertSignal call returns, whatever the
\* other goroutines do.
C16_NoStarvation ==
    /\ [](ReadersShare /\ WriterLocksPerCall)
    /\ \A r \in Handlers : rpc[r] = "idle" ~> rpc[r] = "Returned"
    /\ InPushRaw ~> ~InPushRaw
    /\ \A i \in 1..MostSignals : InUpsert(i) ~> ~InUpsert(i)

\* Both handlers hold the read lock at once while the ingestion goroutine
\* awaits the write lock for an UpsertSignal.
C16_Witness ==
    /\ muReaders = Handlers
    /\ muPending
    /\ pc = "UpsertAcquire"


\* The errors with which listening or serving fails for a reason other than
\* the shutdown of the server.
ServeFailures == {"listen error", "accept error"}

\* C20: when the context is cancelled while the web server is serving, the
\* server is shut down: the listener is closed, Shutdown returns after at
\* most ShutdownTimeout seconds whatever the requests in flight do, it
\* closes no connection whose request is in flight, and StartWebServer
\* returns. StartWebServer returns nil when the server was closed by
\* Shutdown, and the error itself when listening or serving failed for
\* another reason, which is recorded only on a server that is not shutting
\* down.
C20_ShutdownOnCancel ==
    /\ (cancelled /\ swPc = "Serving") ~> (swPc = "Returned" /\ ~listening /\ sdPc = "Done")
    /\ [](swPc = "Returned" =>
            /\ srvErr \in ServeFailures \cup {"ErrServerClosed"}
            /\ swRet = (IF srvErr \in ServeFailures THEN srvErr ELSE "nil"))
    /\ [](srvErr = "ErrServerClosed" => cancelled /\ inShutdown)
    /\ [](sdPc \in {"CloseListeners", "Polling"} => elapsed <= ShutdownTimeout)
    /\ [][ /\ (srvErr' \in ServeFailures /\ srvErr' # srvErr) => ~inShutdown
           /\ \A c \in Conns :
                (conns[c] = "active" /\ conns'[c] # "active") =>
                    /\ sdPc' = sdPc
                    /\ conns'[c] = (IF inShutdown THEN "absent" ELSE "idle")
         ]_vars

\* C20 witness: the context was cancelled while the server was serving a
\* request that never finished; Shutdown gave up when the grace period had
\* passed, and StartWebServer returned nil.
C20_Witness ==
    /\ cancelled
    /\ swPc = "Returned"
    /\ swRet = "nil"
    /\ srvErr = "ErrServerClosed"
    /\ sdPc = "Done"
    /\ elapsed = ShutdownTimeout
    /\ \E c \in Conns : conns[c] = "active"


\* The arrays a handler's returned snapshot refers to.
SnapshotArrays(r) == {snapSigs[r].arr, snapRaw[r].arr} \ {0}

\* C21: Snapshot is read-only and returns copies. A step of Snapshot leaves
\* the signal map, the raw FIFO with its slice and array, and the capacity
\* as they are. The slices it returns hold what the store held at that
\* instant, in arrays that neither the store nor the snapshot of another
\* handler refers to. As long as the handler holds them their contents stay
\* the same, whatever UpsertSignal and PushRaw do since, an eviction that
\* reslices the array of the store included. The store's slice always holds
\* the raw FIFO.
C21_SnapshotReturnsCopies ==
    /\ [](rawFrames = Contents(heap, rawSlice))
    /\ [](\A r \in Handlers :
            rpc[r] = "Returned" =>
                /\ rawSlice.arr \notin SnapshotArrays(r)
                /\ \A q \in Handlers \ {r} : SnapshotArrays(q) \cap SnapshotArrays(r) = {}
                /\ snapSigs[r].arr # snapRaw[r].arr
                /\ Contents(heap, snapSigs[r]) = snap[r].signals
                /\ Contents(heap, snapRaw[r]) = snap[r].raw)
    /\ [][\A r \in Handlers :
            /\ (rpc[r] \in {"idle", "Locked", "Sorted"} /\ rpc'[r] # rpc[r]) =>
                  /\ UNCHANGED <<signals, rawFrames, rawCapacity, rawSlice>>
                  /\ rawSlice.arr # 0 => heap'[rawSlice.arr] = heap[rawSlice.arr]
            /\ (rpc[r] = "Sorted" /\ rpc'[r] = "Returned") =>
                  /\ Contents(heap', snapRaw'[r]) = rawFrames
                  /\ Contents(heap', snapSigs'[r]) \in SortedSignals(signals)
            /\ (rpc[r] = "Returned" /\ rpc'[r] = "Returned") =>
                  /\ snap'[r] = snap[r]
                  /\ Contents(heap', snapSigs'[r]) = Contents(heap, snapSigs[r])
                  /\ Contents(heap', snapRaw'[r]) = Contents(heap, snapRaw[r])
        ]_vars

\* C21 witness: a handler holds a snapshot with a raw frame and a signal;
\* since it was returned, PushRaw has appended to the array of the store and
\* evicted by reslicing it, so that the store holds another raw frame, and
\* UpsertSignal has changed the signal map.
C21_Witness ==
    \E r \in Handlers :
        /\ rpc[r] = "Returned"
        /\ snap[r].raw # <<>>
        /\ snap[r].signals # <<>>
        /\ rawSlice.off > 0
        /\ pc = "Receive"
        /\ rawFrames # snap[r].raw
        /\ snap[r].signals \notin SortedSignals(signals)
        /\ heap[rawSlice.arr][rawSlice.off] = snap[r].raw[Len(snap[r].raw)]

====
